---- MODULE Spec2Model ----
(***************************************************************************)
(* A model of the content catalog's DataLoader (src/js/dataLoader.js):    *)
(* the three cache slots, the TTL, the retrying fetch, the three loads,   *)
(* the cache clears and preloadAll, as a state machine whose steps are    *)
(* the event-loop turns of the code (a call up to its first await, and    *)
(* each continuation after an await).  Time is in milliseconds, as        *)
(* Date.now() and setTimeout count it.                                    *)
(***************************************************************************)
EXTENDS Integers, Sequences, FiniteSets, TLC

VARIABLES
  now,            \* Date.now()
  cache,          \* this.cache: slot -> [data, timestamp]
  cacheDuration,  \* this.cacheDuration
  calls,          \* the load calls: call id -> the call's frame and outcome
  preload,        \* the preloadAll call (its Promise.all)
  loads,          \* how many loads were started so far
  setAt,          \* history: when setCache last wrote the slot (0: never / cleared)
  lastOverride,   \* history: the TTL the last fetched config carried (0: none yet)
  recsIn,         \* getRecommendedContent: the list loadRecommendations returned
  contentIn,      \* getRecommendedContent: the list loadContent returned
  joinOut,        \* getRecommendedContent: what it returned
  joinPc,         \* getRecommendedContent: "idle" before the call, "done" after
  query,          \* the getContentById / getContentByType call and its outcome
  routes,         \* Router: this.routes
  currentParams,  \* Router: this.currentParams
  entries,        \* the browser's session history: the URLs of its entries
  index,          \* the browser's session history: the current entry (window.location)
  listening,      \* Router: init() has bound the popstate listener
  dispatch,       \* history: what the last handleRoute did
  got,            \* what the last getter of the Router returned to its caller
  nav,            \* history: the last change of the session history
  searchData,     \* SearchEngine: this.data
  keyword,        \* search: the keyword of the last call
  results,        \* search: what the last call returned
  searchPc,       \* search: "idle" before a call, "done" after
  hlText,         \* highlight: the text of the call
  hlKeyword,      \* highlight: the keyword of the call
  hlOut,          \* highlight: what the call returned
  hlPc            \* highlight: "idle" before the call, "done" after

loaderVars == <<now, cache, cacheDuration, calls, preload, loads, setAt, lastOverride>>
joinVars == <<recsIn, contentIn, joinOut, joinPc>>
queryVars == <<query>>
routerVars == <<routes, currentParams, entries, index, listening, dispatch, got, nav>>

searchVars == <<searchData, keyword, results, searchPc, hlText, hlKeyword, hlOut, hlPc>>

\* The state of the Router, of its browser and of the SearchEngine.
siteVars == <<routerVars, searchVars>>

\* What the steps of the loads leave alone.
nonLoaderVars == <<joinVars, queryVars, siteVars>>

vars == <<loaderVars, joinVars, queryVars, siteVars>>

-----------------------------------------------------------------------------
(* Program constants (the constructor, dataLoader.js:6-20) *)

DefaultCacheDuration == 3600000
maxRetries == 3
retryDelay == 1000

Keys == {"content", "config", "recommendations"}

(* Bounds of the model *)

StartTime == 1000   \* Date.now() when the loader is constructed (any positive time)
MaxTicks == 3       \* the clock is observed at MaxTicks instants after a reference time
MaxLoads == 2       \* loads started in one behaviour
MaxRecs == 3        \* entries of a recommendation list
MaxItems == 2       \* items of a content list

\* The content payloads the server may serve.
Versions == {1, 2}

\* The TTL overrides a config payload may carry (0: no performance.cacheDuration).
DurationChoices == {0, retryDelay, 2 * DefaultCacheDuration}

\* The instants at which the clock is observed: a run of retryDelay steps from
\* construction, and one around the expiry of the default TTL.
EarlyInstants == {StartTime + k * retryDelay : k \in 0..MaxTicks}
LateInstants == {StartTime + DefaultCacheDuration + k * retryDelay : k \in (0 - 1)..MaxTicks}
Instants == EarlyInstants \cup LateInstants

-----------------------------------------------------------------------------
(* Data *)

\* null
NULL == [v |-> 0, dur |-> 0]

\* What a slot can hold: data.content / data.recommendations (a list, identified by
\* its version v) or the whole config object (with its performance.cacheDuration).
Payloads(key) ==
  IF key = "config"
    THEN {[v |-> 1, dur |-> d] : d \in DurationChoices}
    ELSE {[v |-> n, dur |-> 0] : n \in (IF key = "content" THEN Versions ELSE {1})}

ConfigFields == {"site", "contentTypes", "ageRatings"}

\* A response body: whether it parses as JSON, the kind of its list field
\* (content / recommendations), the truthy config fields it has, and its payload.
Bodies(key) ==
  {[parses |-> FALSE, list |-> "absent", has |-> {}, data |-> NULL]}
  \cup
  (IF key = "config"
     THEN {[parses |-> TRUE, list |-> "absent", has |-> h, data |-> p] :
             h \in SUBSET ConfigFields, p \in Payloads(key)}
     ELSE {[parses |-> TRUE, list |-> l, has |-> {}, data |-> p] :
             l \in {"absent", "notArray", "array"}, p \in Payloads(key)})

EmptySlot == [data |-> NULL, timestamp |-> 0]

\* The frame of a load: where it is suspended (pc), its dataset, fetchWithRetry's
\* `retries`, the timer it sleeps on, and its outcome.  attempts (the requests it
\* issued), via, cause, overlapped (it was in flight together with another load) and
\* endOrder (it was the n-th load to end) and after (how the load its caller made
\* before it had ended) are history.
IdleCall == [pc |-> "idle", key |-> "content", retries |-> 0, attempts |-> 0,
             wakeAt |-> 0, status |-> "none", value |-> NULL, via |-> "none",
             cause |-> "none", overlapped |-> FALSE, endOrder |-> 0, after |-> "none"]

\* The frame of a derived query (getContentById, getContentByType): the operation, its
\* argument, the frame of the loadContent it awaits, and its outcome (value: the items
\* it returned; error: what it raised, with the cause the LoadFailure wraps).
IdleQuery == [pc |-> "idle", op |-> "none", arg |-> "", caller |-> "none",
              status |-> "none", error |-> "none", cause |-> "none", value |-> <<>>]

\* preloadAll's Promise.all: pending, resolved with the three values, or rejected with
\* the error of the member that raised first.
IdlePreload == [pc |-> "idle", values |-> [k \in Keys |-> NULL],
                failed |-> "none", cause |-> "none"]

-----------------------------------------------------------------------------
(* The Router and its browser (src/unnamed/part_001:4-186): strings are sequences of
   characters.  "%2F" stands for the three characters of an escape (it decodes to a
   slash) and "%" for a malformed escape, which decodeURIComponent refuses. *)

SLASH == <<"/">>

\* {} (an object without keys): the empty mapping.
EmptyParams == [n \in {} |-> <<>>]

\* A URL of the page: location.pathname and location.search.
Url(pathname, search) == [pathname |-> pathname, search |-> search]

\* What the last handleRoute did: the path it read, the handlers it invoked (by the
\* position of their route), the mapping it passed, how often it invoked the not-found
\* fallback, whether the handler raised, how handleRoute ended, and whether the
\* handler of the handleRoute before it had raised.
NoDispatch == [path |-> <<>>, invoked |-> <<>>, args |-> EmptyParams, notFound |-> 0,
               handlerRaised |-> FALSE, outcome |-> "none", afterRaise |-> FALSE]

\* The last change of the session history: navigate(p, false) ("push"),
\* navigate(p, true) ("replace") or a back / forward navigation, with the URL that was
\* current before a navigate, the URL it asked for, the position that was current
\* before the change, and for a back / forward navigation the kind of the change
\* before it.
NoUrl == Url(<<>>, <<>>)
NoNav == [op |-> "none", from |-> NoUrl, to |-> NoUrl, at |-> 0, after |-> "none"]

\* What a getter returned: the mapping, and whether it is the router's own object.
NoResult == [op |-> "none", alias |-> FALSE, value |-> EmptyParams]

\* The Router after construction (part_001:5-8), on a page whose history holds the
\* one entry url.
RouterAt(url) ==
  /\ routes = <<>>
  /\ currentParams = EmptyParams
  /\ entries = <<url>>
  /\ index = 1
  /\ listening = FALSE
  /\ dispatch = NoDispatch
  /\ got = NoResult
  /\ nav = NoNav

\* The SearchEngine after construction (part_001:195-197), before any call.
SearchIdle ==
  /\ searchData = <<>>
  /\ keyword = <<>> /\ results = <<>> /\ searchPc = "idle"
  /\ hlText = <<>> /\ hlKeyword = <<>> /\ hlOut = <<>> /\ hlPc = "idle"

\* The Router, the page and the SearchEngine while only the loader is looked at.
SiteIdle == RouterAt(Url(SLASH, <<>>)) /\ SearchIdle

-----------------------------------------------------------------------------
(* The cache *)

\* A bug isCacheValid could have: an entry as old as the TTL still counts as fresh.
isCacheValid_inclusive(key) ==
  LET cached == cache[key] IN
    IF cached.data = NULL \/ cached.timestamp = 0
      THEN FALSE
      ELSE (now - cached.timestamp) <= cacheDuration

\* isCacheValid(key), dataLoader.js:27-35.  null data and a null (or 0) timestamp
\* are falsy.
isCacheValid(key) ==
  LET cached == cache[key] IN
    IF cached.data = NULL \/ cached.timestamp = 0
      THEN FALSE
      ELSE (now - cached.timestamp) < cacheDuration

\* A bug setCache could have: the write of a load is dropped once preloadAll was
\* rejected.
setCache_unlessRejected(key, data) ==
  IF preload.pc = "rejected" THEN cache
  ELSE [cache EXCEPT ![key] = [data |-> data, timestamp |-> now]]

\* A bug setCache could have: a slot that holds data is not overwritten.
setCache_keepFirst(key, data) ==
  IF cache[key].data # NULL THEN cache
  ELSE [cache EXCEPT ![key] = [data |-> data, timestamp |-> now]]

\* setCache(key, data), dataLoader.js:42-47: the cache after the call.
setCache(key, data) ==
  [cache EXCEPT ![key] = [data |-> data, timestamp |-> now]]

\* getCache(key), dataLoader.js:54-56.
getCache(key) == cache[key].data

\* A bug the override could have: the TTL is taken from the payload, present or not.
OverrideDuration_unguarded(data) == data.dur

\* A bug the override could have: only the first override is applied.
OverrideDuration_firstOnly(data) ==
  IF data.dur # 0 /\ cacheDuration = DefaultCacheDuration THEN data.dur ELSE cacheDuration

\* The TTL after loadConfig fetched `data` (dataLoader.js:246-248).
OverrideDuration(data) ==
  IF data.dur # 0 THEN data.dur ELSE cacheDuration

-----------------------------------------------------------------------------
(* Shape checks of the three loads *)

\* A bug the shape check could have: a list field of any kind passes.
ValidShape_noArrayCheck(key, body) ==
  IF key = "config"
    THEN ConfigFields \subseteq body.has
    ELSE body.list # "absent"

\* dataLoader.js:99 (content), :173 (recommendations), :241 (config).
ValidShape(key, body) ==
  IF key = "config"
    THEN ConfigFields \subseteq body.has
    ELSE body.list = "array"

-----------------------------------------------------------------------------
(* The frames of a load *)

\* The load is suspended at an await.
InFlight(f) == f.pc \in {"fetching", "delay", "parsing"}

\* How many loads have ended: every load that was started is in flight or has ended.
Ended == loads - Cardinality({c \in DOMAIN calls : InFlight(calls[c])})

\* A load served from its fresh slot (dataLoader.js:90-92).
HitFrame(key) ==
  [pc |-> "done", key |-> key, retries |-> 0, attempts |-> 0, wakeAt |-> 0,
   status |-> "returned", value |-> getCache(key), via |-> "hit", cause |-> "none",
   overlapped |-> FALSE, endOrder |-> Ended + 1, after |-> "none"]

\* A load whose first request is in flight: fetchWithRetry(url) with
\* retries = this.maxRetries, suspended at `await fetch(url)` (dataLoader.js:64-66).
FirstFetchFrame(key) ==
  [pc |-> "fetching", key |-> key, retries |-> maxRetries, attempts |-> 1,
   wakeAt |-> 0, status |-> "none", value |-> NULL, via |-> "none", cause |-> "none",
   overlapped |-> FALSE, endOrder |-> 0, after |-> "none"]

\* A bug a load could have (a single-flight cache of requests): a load of a dataset
\* that another load is already fetching issues no request and waits for a body.
BeginFrame_singleFlight(key) ==
  IF isCacheValid(key) THEN HitFrame(key)
  ELSE IF \E d \in DOMAIN calls : InFlight(calls[d]) /\ calls[d].key = key
    THEN [FirstFetchFrame(key) EXCEPT !.pc = "parsing", !.retries = 0, !.attempts = 0]
    ELSE FirstFetchFrame(key)

\* A bug a load could have: no look at the cache before fetching.
BeginFrame_noCacheCheck(key) == FirstFetchFrame(key)

\* The call of a load up to its first await (dataLoader.js:88-95, 162-169, 230-237).
BeginFrame(key) ==
  IF isCacheValid(key) THEN HitFrame(key) ELSE FirstFetchFrame(key)

\* A bug the catch block could have: only a fresh entry is used as the fallback.
CatchFrame_freshOnly(f, cause) ==
  IF isCacheValid(f.key)
    THEN [f EXCEPT !.pc = "done", !.retries = 0, !.wakeAt = 0, !.status = "returned",
                   !.value = cache[f.key].data, !.via = "stale", !.cause = cause,
                   !.endOrder = Ended + 1]
    ELSE [f EXCEPT !.pc = "done", !.retries = 0, !.wakeAt = 0, !.status = "raised",
                   !.value = NULL, !.via = "raised", !.cause = cause,
                   !.endOrder = Ended + 1]

\* A bug the catch block could have: no fallback, the failure is always raised.
CatchFrame_noFallback(f, cause) ==
  [f EXCEPT !.pc = "done", !.retries = 0, !.wakeAt = 0, !.status = "raised",
            !.value = NULL, !.via = "raised", !.cause = cause, !.endOrder = Ended + 1]

\* The catch block of a load (dataLoader.js:107-117, 181-191, 254-264): the stale data
\* if the slot holds any, else the LoadFailure wrapping the cause.
CatchFrame(f, cause) ==
  IF cache[f.key].data # NULL
    THEN [f EXCEPT !.pc = "done", !.retries = 0, !.wakeAt = 0, !.status = "returned",
                   !.value = cache[f.key].data, !.via = "stale", !.cause = cause,
                   !.endOrder = Ended + 1]
    ELSE [f EXCEPT !.pc = "done", !.retries = 0, !.wakeAt = 0, !.status = "raised",
                   !.value = NULL, !.via = "raised", !.cause = cause,
                   !.endOrder = Ended + 1]

\* A bug the delay could have: it grows with every retry (a backoff).
RetryWake_backoff(retries) == now + retryDelay * (maxRetries - retries + 1)

\* When the timer of a retry fires (dataLoader.js:76): retryDelay from now, whatever
\* the number of retries left.
RetryWake(retries) == now + retryDelay

\* A bug the catch block could have: the entry it falls back to is stamped anew.
CacheAfterCatch_restamp(key) ==
  IF cache[key].data # NULL
    THEN [cache EXCEPT ![key] = [data |-> cache[key].data, timestamp |-> now]]
    ELSE cache

\* The cache after the catch block of a load (dataLoader.js:107-117, 181-191,
\* 254-264), which reads this.cache and writes nothing.
CacheAfterCatch(key) == cache

\* A bug the test could have: one retry too many.
CanRetry_inclusive(retries) == retries >= 0

\* fetchWithRetry's test for another attempt (dataLoader.js:74).
CanRetry(retries) == retries > 0

-----------------------------------------------------------------------------
(* Promise.all of preloadAll (dataLoader.js:294-298); its members are the calls
   named by their dataset *)

\* A bug preloadAll could have: it waits for all three loads and resolves with
\* whatever they gave (as Promise.allSettled would).
PreloadAfter_allSettled(p, cs) ==
  IF p.pc # "pending" THEN p
  ELSE IF \A k \in Keys : cs[k].pc = "done"
    THEN [pc |-> "resolved", values |-> [k \in Keys |-> cs[k].value],
          failed |-> "none", cause |-> "none"]
  ELSE p

\* A bug preloadAll could have: a load that raises is not noticed, and the call waits
\* on for values that do not come.
PreloadAfter_resolveOnly(p, cs) ==
  IF p.pc # "pending" THEN p
  ELSE IF \A k \in Keys : cs[k].status = "returned"
    THEN [pc |-> "resolved", values |-> [k \in Keys |-> cs[k].value],
          failed |-> "none", cause |-> "none"]
  ELSE p

\* The Promise.all p once the members are as in cs: it rejects with the first member
\* that raises and resolves when all three have returned.
PreloadAfter(p, cs) ==
  IF p.pc # "pending" THEN p
  ELSE IF \E k \in Keys : cs[k].status = "raised"
    THEN LET k == CHOOSE x \in Keys : cs[x].status = "raised" IN
           [p EXCEPT !.pc = "rejected", !.failed = k, !.cause = cs[k].cause]
  ELSE IF \A k \in Keys : cs[k].status = "returned"
    THEN [pc |-> "resolved", values |-> [k \in Keys |-> cs[k].value],
          failed |-> "none", cause |-> "none"]
  ELSE p

-----------------------------------------------------------------------------
(* Actions *)

\* A call of loadContent / loadConfig / loadRecommendations by frame c, up to its
\* first await.
CallLoad(c, key) ==
  /\ calls[c].pc \in {"idle", "done"}
  /\ preload.pc = "idle"
  /\ loads < MaxLoads
  /\ LET f == BeginFrame(key)
         meets == InFlight(f) /\ \E d \in DOMAIN calls \ {c} : InFlight(calls[d])
     IN calls' = [d \in DOMAIN calls |->
                    IF d = c THEN [f EXCEPT !.overlapped = meets,
                                            !.after = IF calls[c].key = key
                                                        THEN calls[c].via ELSE "none"]
                    ELSE IF InFlight(f) /\ InFlight(calls[d])
                      THEN [calls[d] EXCEPT !.overlapped = TRUE]
                      ELSE calls[d]]
  /\ loads' = loads + 1
  /\ UNCHANGED <<now, cache, cacheDuration, preload, setAt, lastOverride>>

\* A standalone call of loadContent / loadConfig / loadRecommendations.
LoadBegin(c, key) == CallLoad(c, key) /\ UNCHANGED nonLoaderVars

loadContent(c) == LoadBegin(c, "content")

loadConfig(c) == LoadBegin(c, "config")

loadRecommendations(c) == LoadBegin(c, "recommendations")

\* The request fails (fetch rejects, or the response is not ok): dataLoader.js:68-81.
\* With retries left the call sleeps retryDelay; else the error reaches the load's catch.
FetchFails(c) ==
  /\ calls[c].pc = "fetching"
  /\ LET f == calls[c]
         g == IF CanRetry(f.retries)
                THEN [f EXCEPT !.pc = "delay", !.wakeAt = RetryWake(f.retries)]
                ELSE CatchFrame(f, "transport")
         cs == [calls EXCEPT ![c] = g]
     IN /\ calls' = cs
        /\ preload' = PreloadAfter(preload, cs)
        /\ cache' = IF CanRetry(f.retries) THEN cache ELSE CacheAfterCatch(f.key)
  /\ UNCHANGED <<now, cacheDuration, loads, setAt, lastOverride>>
  /\ UNCHANGED nonLoaderVars

\* The retry timer fires: fetchWithRetry(url, retries - 1) issues the next request
\* (dataLoader.js:76-77, 64-66).
TimerFires(c) ==
  /\ calls[c].pc = "delay"
  /\ now >= calls[c].wakeAt
  /\ calls' = [calls EXCEPT ![c] = [@ EXCEPT !.pc = "fetching", !.wakeAt = 0,
                                              !.retries = @ - 1, !.attempts = @ + 1]]
  /\ UNCHANGED <<now, cache, cacheDuration, preload, loads, setAt, lastOverride>>
  /\ UNCHANGED nonLoaderVars

\* The response is ok: fetchWithRetry returns it and the load awaits response.json()
\* (dataLoader.js:72, 96).
FetchOk(c) ==
  /\ calls[c].pc = "fetching"
  /\ calls' = [calls EXCEPT ![c] = [@ EXCEPT !.pc = "parsing", !.retries = 0]]
  /\ UNCHANGED <<now, cache, cacheDuration, preload, loads, setAt, lastOverride>>
  /\ UNCHANGED nonLoaderVars

\* response.json() settles with `body`: the rest of the load's try block and its catch
\* (dataLoader.js:96-117, 170-191, 238-264).
BodyArrives(c, body) ==
  /\ calls[c].pc = "parsing"
  /\ LET f == calls[c]
         key == f.key
     IN /\ body \in Bodies(key)
        /\ IF body.parses /\ ValidShape(key, body)
             THEN /\ cacheDuration' =
                       IF key = "config" THEN OverrideDuration(body.data)
                                         ELSE cacheDuration
                  /\ lastOverride' =
                       IF key = "config" /\ body.data.dur # 0
                         THEN body.data.dur ELSE lastOverride
                  /\ cache' = setCache(key, body.data)
                  /\ setAt' = [setAt EXCEPT ![key] = now]
                  /\ LET cs == [calls EXCEPT ![c] =
                                  [f EXCEPT !.pc = "done", !.status = "returned",
                                            !.value = body.data, !.via = "fetched",
                                            !.endOrder = Ended + 1]]
                     IN calls' = cs /\ preload' = PreloadAfter(preload, cs)
             ELSE /\ LET cs == [calls EXCEPT ![c] =
                                  CatchFrame(f, IF body.parses THEN "shape" ELSE "parse")]
                     IN calls' = cs /\ preload' = PreloadAfter(preload, cs)
                  /\ cache' = CacheAfterCatch(key)
                  /\ UNCHANGED <<cacheDuration, setAt, lastOverride>>
  /\ UNCHANGED <<now, loads>>
  /\ UNCHANGED nonLoaderVars

\* clearCache(), dataLoader.js:270-276.
clearCache ==
  /\ cache' = [k \in Keys |-> EmptySlot]
  /\ setAt' = [k \in Keys |-> 0]
  /\ UNCHANGED <<now, cacheDuration, calls, preload, loads, lastOverride>>
  /\ UNCHANGED nonLoaderVars

\* clearCacheByKey(key), dataLoader.js:282-286: a key that names no slot changes nothing.
clearCacheByKey(key) ==
  /\ IF key \in Keys
       THEN /\ cache' = [cache EXCEPT ![key] = EmptySlot]
            /\ setAt' = [setAt EXCEPT ![key] = 0]
       ELSE UNCHANGED <<cache, setAt>>
  /\ UNCHANGED <<now, cacheDuration, calls, preload, loads, lastOverride>>
  /\ UNCHANGED nonLoaderVars

\* preloadAll(), dataLoader.js:292-305: the three loads are called one after the other
\* in the same turn, each up to its first await, and Promise.all awaits them.  (One
\* preloadAll is modelled in a behaviour.)
preloadAll ==
  /\ preload.pc = "idle"
  /\ DOMAIN calls = Keys
  /\ \A k \in Keys : calls[k].pc = "idle"
  /\ LET cs == [k \in Keys |-> BeginFrame(k)]
     IN /\ calls' = cs
        /\ preload' = PreloadAfter([IdlePreload EXCEPT !.pc = "pending"], cs)
  /\ loads' = loads + Cardinality(Keys)
  /\ UNCHANGED <<now, cache, cacheDuration, setAt, lastOverride>>
  /\ UNCHANGED nonLoaderVars

\* Time passes: the clock moves to the next observed instant.
Tick(instants) ==
  /\ \E t \in instants : t > now
  /\ now' = CHOOSE t \in instants : t > now /\ \A u \in instants : u > now => t <= u
  /\ UNCHANGED <<cache, cacheDuration, calls, preload, loads, setAt, lastOverride>>
  /\ UNCHANGED nonLoaderVars

-----------------------------------------------------------------------------
(* The loader with one caller: loads of any dataset one after the other, cache
   clears and the clock *)

Callers == {"A"}

Init ==
  /\ now = StartTime
  /\ cache = [k \in Keys |-> EmptySlot]
  /\ cacheDuration = DefaultCacheDuration
  /\ calls = [c \in Callers |-> IdleCall]
  /\ preload = IdlePreload
  /\ loads = 0
  /\ setAt = [k \in Keys |-> 0]
  /\ lastOverride = 0
  /\ recsIn = <<>> /\ contentIn = <<>> /\ joinOut = <<>> /\ joinPc = "idle"
  /\ query = IdleQuery
  /\ SiteIdle

Next ==
  \/ \E c \in DOMAIN calls : loadContent(c)
  \/ \E c \in DOMAIN calls : loadConfig(c)
  \/ \E c \in DOMAIN calls : loadRecommendations(c)
  \/ \E c \in DOMAIN calls : FetchFails(c)
  \/ \E c \in DOMAIN calls : TimerFires(c)
  \/ \E c \in DOMAIN calls : FetchOk(c)
  \/ \E c \in DOMAIN calls : \E body \in Bodies(calls[c].key) : BodyArrives(c, body)
  \/ clearCache
  \/ \E key \in Keys \cup {"other"} : clearCacheByKey(key)
  \/ Tick(Instants)

Spec == Init /\ [][Next]_vars

-----------------------------------------------------------------------------
(* The loader with one caller, an hour after its three datasets were loaded: a state
   three loads at StartTime and the clock reach.  The entries are about to expire. *)

\* The payload an already loaded slot holds; the config's carries the TTL d.
LoadedPayload(key, d) == [v |-> 1, dur |-> IF key = "config" THEN d ELSE 0]

InitStale ==
  /\ now = StartTime + DefaultCacheDuration - retryDelay
  /\ cache = [k \in Keys |-> [data |-> LoadedPayload(k, 0), timestamp |-> StartTime]]
  /\ cacheDuration = DefaultCacheDuration
  /\ calls = [c \in Callers |-> IdleCall]
  /\ preload = IdlePreload
  /\ loads = 0
  /\ setAt = [k \in Keys |-> StartTime]
  /\ lastOverride = 0
  /\ recsIn = <<>> /\ contentIn = <<>> /\ joinOut = <<>> /\ joinPc = "idle"
  /\ query = IdleQuery
  /\ SiteIdle

NextStale ==
  \/ \E c \in DOMAIN calls : loadContent(c)
  \/ \E c \in DOMAIN calls : loadConfig(c)
  \/ \E c \in DOMAIN calls : loadRecommendations(c)
  \/ \E c \in DOMAIN calls : FetchFails(c)
  \/ \E c \in DOMAIN calls : TimerFires(c)
  \/ \E c \in DOMAIN calls : FetchOk(c)
  \/ \E c \in DOMAIN calls : \E body \in Bodies(calls[c].key) : BodyArrives(c, body)
  \/ clearCache
  \/ Tick(LateInstants)

SpecStale == InitStale /\ [][NextStale]_vars

-----------------------------------------------------------------------------
(* Two callers of loadContent *)

TwoCallers == {"A", "B"}

InitOverlap ==
  /\ now = StartTime
  /\ cache = [k \in Keys |-> EmptySlot]
  /\ cacheDuration = DefaultCacheDuration
  /\ calls = [c \in TwoCallers |-> IdleCall]
  /\ preload = IdlePreload
  /\ loads = 0
  /\ setAt = [k \in Keys |-> 0]
  /\ lastOverride = 0
  /\ recsIn = <<>> /\ contentIn = <<>> /\ joinOut = <<>> /\ joinPc = "idle"
  /\ query = IdleQuery
  /\ SiteIdle

NextOverlap ==
  \/ \E c \in DOMAIN calls : loadContent(c)
  \/ \E c \in DOMAIN calls : FetchFails(c)
  \/ \E c \in DOMAIN calls : TimerFires(c)
  \/ \E c \in DOMAIN calls : FetchOk(c)
  \/ \E c \in DOMAIN calls : \E body \in Bodies(calls[c].key) : BodyArrives(c, body)
  \/ Tick(Instants)

SpecOverlap == InitOverlap /\ [][NextOverlap]_vars

-----------------------------------------------------------------------------
(* preloadAll: one call per dataset, named by the dataset.  The loader starts with
   any of its slots already loaded: a state the loads reach at StartTime. *)

InitPreload ==
  /\ now = StartTime
  /\ \E loaded \in SUBSET Keys : \E d \in {0, retryDelay} :
       /\ (d # 0) => (loaded = Keys)
       /\ cache = [k \in Keys |->
                     IF k \in loaded
                       THEN [data |-> LoadedPayload(k, d), timestamp |-> StartTime]
                       ELSE EmptySlot]
       /\ setAt = [k \in Keys |-> IF k \in loaded THEN StartTime ELSE 0]
       /\ cacheDuration = (IF d # 0 THEN d ELSE DefaultCacheDuration)
       /\ lastOverride = d
  /\ calls = [k \in Keys |-> [IdleCall EXCEPT !.key = k]]
  /\ preload = IdlePreload
  /\ loads = 0
  /\ recsIn = <<>> /\ contentIn = <<>> /\ joinOut = <<>> /\ joinPc = "idle"
  /\ query = IdleQuery
  /\ SiteIdle

NextPreload ==
  \/ preloadAll
  \/ \E c \in DOMAIN calls : FetchFails(c)
  \/ \E c \in DOMAIN calls : TimerFires(c)
  \/ \E c \in DOMAIN calls : FetchOk(c)
  \/ \E c \in DOMAIN calls : \E body \in Bodies(calls[c].key) : BodyArrives(c, body)
  \/ Tick(EarlyInstants)

SpecPreload == InitPreload /\ [][NextPreload]_vars

-----------------------------------------------------------------------------
(* The loads and preloadAll to their end: every request is answered, every body
   arrives and every timer fires.  The loads of preloadAll are named by their dataset,
   the loads called on their own have one caller; the clock is moved by the timers
   alone. *)

\* The bodies a response has here: one that does not parse and one that is valid.
LiveBodies(key) ==
  {[parses |-> FALSE, list |-> "absent", has |-> {}, data |-> NULL],
   [parses |-> TRUE, list |-> (IF key = "config" THEN "absent" ELSE "array"),
    has |-> (IF key = "config" THEN ConfigFields ELSE {}), data |-> LoadedPayload(key, 0)]}

\* The timers that have not fired yet (dataLoader.js:76).
Timers == {calls[c].wakeAt : c \in {d \in DOMAIN calls : calls[d].pc = "delay"}}

\* Time passes until the next timer is due.
TimerDue ==
  /\ \E t \in Timers : t > now
  /\ \A t \in Timers : t > now
  /\ now' = CHOOSE t \in Timers : \A u \in Timers : t <= u
  /\ UNCHANGED <<cache, cacheDuration, calls, preload, loads, setAt, lastOverride>>
  /\ UNCHANGED nonLoaderVars

\* The transport answers the request of call c, or the body of its response arrives.
Responds(c) ==
  \/ FetchOk(c)
  \/ FetchFails(c)
  \/ \E body \in LiveBodies(calls[c].key) : BodyArrives(c, body)

InitLive ==
  /\ now = StartTime
  /\ cache = [k \in Keys |-> EmptySlot]
  /\ cacheDuration = DefaultCacheDuration
  /\ calls = [k \in Keys |-> [IdleCall EXCEPT !.key = k]]
  /\ preload = IdlePreload
  /\ loads = 0
  /\ setAt = [k \in Keys |-> 0]
  /\ lastOverride = 0
  /\ recsIn = <<>> /\ contentIn = <<>> /\ joinOut = <<>> /\ joinPc = "idle"
  /\ query = IdleQuery
  /\ SiteIdle

\* The frame of the loads that are called on their own, one after the other.
LiveCaller == "content"

NextLive ==
  \/ loadContent(LiveCaller)
  \/ loadConfig(LiveCaller)
  \/ loadRecommendations(LiveCaller)
  \/ preloadAll
  \/ \E c \in DOMAIN calls : Responds(c)
  \/ \E c \in DOMAIN calls : TimerFires(c)
  \/ TimerDue

\* Every request is answered and every body arrives (Responds), every timer fires
\* once it is due (TimerFires), and time passes (TimerDue).
SpecLive ==
  /\ InitLive
  /\ [][NextLive]_vars
  /\ \A c \in Keys : WF_vars(Responds(c)) /\ WF_vars(TimerFires(c))
  /\ WF_vars(TimerDue)

-----------------------------------------------------------------------------
(* getRecommendedContent (dataLoader.js:198-224): the join of the recommendation list
   with the content list *)

\* The ids recommendations refer to, the ids content items have, and the priorities.
RecIds == {"a", "b", "missing"}
ItemIds == {"a", "b"}
Priorities == {0, 1, 2}

\* All sequences over S of length at most n.
SeqsUpTo(S, n) == UNION {[1..m -> S] : m \in 0..n}

\* The content lists: item j has the title j, which tells items of one id apart.
ContentLists ==
  {[j \in 1..Len(ids) |-> [id |-> ids[j], title |-> j]] : ids \in SeqsUpTo(ItemIds, MaxItems)}

\* The recommendation lists: entry j has the reason j, which tells the entries apart.
RecLists ==
  {[j \in 1..Len(es) |-> [contentId |-> es[j][1], priority |-> es[j][2], reason |-> j]] :
     es \in SeqsUpTo(RecIds \X Priorities, MaxRecs)}

\* null, in the shape of an annotated item.
NoItem == [id |-> "", title |-> 0, recommendationReason |-> 0, recommendationPriority |-> 0]

\* content.find(c => c.id === id) (dataLoader.js:206) found something.
Found(content, id) == \E i \in 1..Len(content) : content[i].id = id

\* content.find(c => c.id === id): the first item of that id.
Find(content, id) ==
  content[CHOOSE i \in 1..Len(content) :
            content[i].id = id /\ \A h \in 1..(i - 1) : content[h].id # id]

\* The callback of map (dataLoader.js:205-215).
MapRec(content, rec) ==
  IF Found(content, rec.contentId)
    THEN LET item == Find(content, rec.contentId) IN
           [id |-> item.id, title |-> item.title,
            recommendationReason |-> rec.reason,
            recommendationPriority |-> rec.priority]
    ELSE NoItem

\* A bug the comparator could have: descending order.
Compare_descending(a, b) == b.recommendationPriority - a.recommendationPriority

\* The comparator of sort (dataLoader.js:217).
Compare(a, b) == a.recommendationPriority - b.recommendationPriority

\* Array.prototype.sort, which is stable: x is put behind the elements of the sorted
\* prefix that do not compare greater than x.
SortInsert(sorted, x) ==
  LET k == Cardinality({i \in 1..Len(sorted) : Compare(sorted[i], x) <= 0})
  IN SubSeq(sorted, 1, k) \o <<x>> \o SubSeq(sorted, k + 1, Len(sorted))

RECURSIVE Sort(_)
Sort(s) ==
  IF s = <<>> THEN <<>>
  ELSE SortInsert(Sort(SubSeq(s, 1, Len(s) - 1)), s[Len(s)])

\* recommendations.map(...).filter(item => item !== null).sort(...)
\* (dataLoader.js:204-217).
RecommendedContent(recommendations, content) ==
  LET mapped == [j \in 1..Len(recommendations) |-> MapRec(content, recommendations[j])]
      IsItem(item) == item # NoItem
  IN Sort(SelectSeq(mapped, IsItem))

\* getRecommendedContent() once its two loads have returned recsIn and contentIn.
getRecommendedContent ==
  /\ joinPc = "idle"
  /\ joinOut' = RecommendedContent(recsIn, contentIn)
  /\ joinPc' = "done"
  /\ UNCHANGED <<recsIn, contentIn>>
  /\ UNCHANGED <<loaderVars, queryVars, siteVars>>

InitJoin ==
  /\ now = StartTime
  /\ cache = [k \in Keys |-> EmptySlot]
  /\ cacheDuration = DefaultCacheDuration
  /\ calls = [c \in Callers |-> IdleCall]
  /\ preload = IdlePreload
  /\ loads = 0
  /\ setAt = [k \in Keys |-> 0]
  /\ lastOverride = 0
  /\ recsIn \in RecLists
  /\ contentIn \in ContentLists
  /\ joinOut = <<>>
  /\ joinPc = "idle"
  /\ query = IdleQuery
  /\ SiteIdle

NextJoin == getRecommendedContent

SpecJoin == InitJoin /\ [][NextJoin]_vars

-----------------------------------------------------------------------------
(* getContentById and getContentByType (dataLoader.js:125-156): the derived queries
   over loadContent *)

\* The arguments a caller passes; "" stands for the falsy ones (empty, null, undefined).
IdArgs == {"", "a", "zz"}
TypeArgs == {"", "book", "movie"}

\* The items of a content payload, by its version.
ContentOf(data) ==
  IF data.v = 1 THEN <<[id |-> "a", type |-> "book"]>>
  ELSE IF data.v = 2 THEN <<[id |-> "b", type |-> "book"], [id |-> "a", type |-> "movie"],
                            [id |-> "a", type |-> "book"]>>
  ELSE <<>>

\* A bug the argument test could have: no test at all.
ArgumentOk_any(arg) == TRUE

\* `if (!id)` / `if (!type)` (dataLoader.js:126, 145): the argument is truthy.
ArgumentOk(arg) == arg # ""

\* content.find(item => item.id === id) || null (dataLoader.js:132), as a list of at
\* most one item; content.filter(item => item.type === type) (dataLoader.js:151).
QueryValue(op, arg, content) ==
  IF op = "byId"
    THEN IF Found(content, arg) THEN <<Find(content, arg)>> ELSE <<>>
    ELSE LET IsType(item) == item.type = arg IN SelectSeq(content, IsType)

\* A bug the catch block of a query could have: the failure of the load is turned into
\* an empty result.
QueryAfter_swallows(q, f) ==
  IF f.status = "raised"
    THEN [q EXCEPT !.pc = "done", !.status = "returned", !.value = <<>>]
    ELSE [q EXCEPT !.pc = "done", !.status = "returned",
                   !.value = QueryValue(q.op, q.arg, ContentOf(f.value))]

\* The query q once the loadContent it awaits has ended as frame f
\* (dataLoader.js:131-136, 150-155): the catch block raises the error it caught.
QueryAfter(q, f) ==
  IF f.status = "raised"
    THEN [q EXCEPT !.pc = "done", !.status = "raised", !.error = "load",
                   !.cause = f.cause]
    ELSE [q EXCEPT !.pc = "done", !.status = "returned",
                   !.value = QueryValue(q.op, q.arg, ContentOf(f.value))]

\* The call of a derived query up to its first await: the argument test, then the call
\* of loadContent on frame c.
QueryBegin(c, op, arg) ==
  /\ query.pc \in {"idle", "done"}
  /\ calls[c].pc \in {"idle", "done"}
  /\ IF ArgumentOk(arg)
       THEN /\ CallLoad(c, "content")
            /\ query' = [IdleQuery EXCEPT !.pc = "waiting", !.op = op, !.arg = arg,
                                          !.caller = c]
       ELSE /\ query' = [IdleQuery EXCEPT !.pc = "done", !.op = op, !.arg = arg,
                                          !.caller = c, !.status = "raised",
                                          !.error = "argument"]
            /\ UNCHANGED loaderVars
  /\ UNCHANGED <<joinVars, siteVars>>

getContentById(c, id) == QueryBegin(c, "byId", id)

getContentByType(c, type) == QueryBegin(c, "byType", type)

\* The continuation of the query after `await this.loadContent()`.
QueryResumes ==
  /\ query.pc = "waiting"
  /\ calls[query.caller].pc = "done"
  /\ query' = QueryAfter(query, calls[query.caller])
  /\ UNCHANGED <<loaderVars, joinVars, siteVars>>

\* The loader starts empty or with content loaded at StartTime.
InitQuery ==
  /\ now = StartTime
  /\ \E loaded \in BOOLEAN :
       /\ cache = [k \in Keys |->
                     IF loaded /\ k = "content"
                       THEN [data |-> LoadedPayload(k, 0), timestamp |-> StartTime]
                       ELSE EmptySlot]
       /\ setAt = [k \in Keys |-> IF loaded /\ k = "content" THEN StartTime ELSE 0]
  /\ cacheDuration = DefaultCacheDuration
  /\ lastOverride = 0
  /\ calls = [c \in Callers |-> IdleCall]
  /\ preload = IdlePreload
  /\ loads = 0
  /\ recsIn = <<>> /\ contentIn = <<>> /\ joinOut = <<>> /\ joinPc = "idle"
  /\ query = IdleQuery
  /\ SiteIdle

NextQuery ==
  \/ \E c \in DOMAIN calls : \E id \in IdArgs : getContentById(c, id)
  \/ \E c \in DOMAIN calls : \E type \in TypeArgs : getContentByType(c, type)
  \/ QueryResumes
  \/ \E c \in DOMAIN calls : FetchFails(c)
  \/ \E c \in DOMAIN calls : TimerFires(c)
  \/ \E c \in DOMAIN calls : FetchOk(c)
  \/ \E c \in DOMAIN calls : \E body \in Bodies(calls[c].key) : BodyArrives(c, body)
  \/ Tick(Instants)

SpecQuery == InitQuery /\ [][NextQuery]_vars

-----------------------------------------------------------------------------
(* Router.register (part_001:33-49): a pattern is compiled to a regular expression,
   a sequence of literal characters and capture groups *)

MaxPathLen == 5     \* characters of a path
MaxRoutes == 2      \* routes registered in one behaviour
MaxEntries == 3     \* entries of the session history

\* The characters of \w that patterns and paths use.
WordChars == {"c", "b", "t", "i"}

\* The characters of the paths: the separator and two word characters, and the two
\* escapes.
PathChars == {"/", "c", "b"}
Escapes == {"%2F", "%"}

\* The paths location.pathname can hold: they start with a slash.  Every short path
\* without escapes, and paths whose last segment is or starts with an escape.
PlainPaths == {p \in SeqsUpTo(PathChars, MaxPathLen) : p # <<>> /\ p[1] = "/"}
EscapedPaths ==
  {p \o <<e>> \o tail : p \in {<<"/">>, <<"/", "c", "/">>}, e \in Escapes,
                        tail \in {<<>>, <<"b">>}}
Paths == PlainPaths \cup EscapedPaths

\* The patterns the application registers: "/", "/c/:t", "/:t", "/c/b", "/:t/:i".
Patterns ==
  { <<"/">>,
    <<"/", "c", "/", ":", "t">>,
    <<"/", ":", "t">>,
    <<"/", "c", "/", "b">>,
    <<"/", ":", "t", "/", ":", "i">> }

\* The capture group a placeholder is replaced by (part_001:40).
GROUP == "([^\\/]+)"

\* A bug the capture group could have: (.+), which takes separators too.
InGroup_any(ch) == TRUE

\* The character class [^\/] of the capture group (part_001:40).
InGroup(ch) == ch # "/"

\* How many characters of \w the pattern has from position i on: the (\w+) of
\* /:(\w+)/g is greedy.
RECURSIVE WordRun(_, _)
WordRun(pattern, i) ==
  IF i <= Len(pattern) /\ pattern[i] \in WordChars THEN 1 + WordRun(pattern, i + 1) ELSE 0

\* pattern.replace(/\//g, '\\/').replace(/:(\w+)/g, ...) from position i on
\* (part_001:36-41): a colon followed by a name becomes a group, every other character
\* stays what it is (an escaped slash is a literal slash).
RECURSIVE RegexFrom(_, _)
RegexFrom(pattern, i) ==
  IF i > Len(pattern) THEN <<>>
  ELSE IF pattern[i] = ":" /\ WordRun(pattern, i + 1) > 0
    THEN <<GROUP>> \o RegexFrom(pattern, i + 1 + WordRun(pattern, i + 1))
    ELSE <<pattern[i]>> \o RegexFrom(pattern, i + 1)

\* The names pushed to paramNames (part_001:38-39), in the order of their placeholders.
RECURSIVE NamesFrom(_, _)
NamesFrom(pattern, i) ==
  IF i > Len(pattern) THEN <<>>
  ELSE IF pattern[i] = ":" /\ WordRun(pattern, i + 1) > 0
    THEN <<SubSeq(pattern, i + 1, i + WordRun(pattern, i + 1))>>
           \o NamesFrom(pattern, i + 1 + WordRun(pattern, i + 1))
    ELSE NamesFrom(pattern, i + 1)

\* The route register pushes (part_001:43-48); a handler is named by the position of
\* its route.
Route(pattern, handler) ==
  [pattern |-> pattern, regex |-> RegexFrom(pattern, 1),
   paramNames |-> NamesFrom(pattern, 1), handler |-> handler]

NoMatch == [ok |-> FALSE, caps |-> <<>>]

\* How many characters at the start of path a capture group can take.
RECURSIVE GroupRun(_)
GroupRun(path) ==
  IF path # <<>> /\ InGroup(Head(path)) THEN 1 + GroupRun(Tail(path)) ELSE 0

\* The match of the rest of a regular expression against the rest of the path, up to
\* its end (the $ of part_001:45): a group is greedy and gives back characters until
\* the rest matches.
RECURSIVE MatchRest(_, _)
MatchRest(regex, path) ==
  IF regex = <<>> THEN [ok |-> path = <<>>, caps |-> <<>>]
  ELSE IF Head(regex) = GROUP
    THEN LET fits == {n \in 1..GroupRun(path) :
                        MatchRest(Tail(regex), SubSeq(path, n + 1, Len(path))).ok}
         IN IF fits = {} THEN NoMatch
            ELSE LET n == CHOOSE k \in fits : \A m \in fits : m <= k
                     rest == MatchRest(Tail(regex), SubSeq(path, n + 1, Len(path)))
                 IN [ok |-> TRUE, caps |-> <<SubSeq(path, 1, n)>> \o rest.caps]
  ELSE IF path # <<>> /\ Head(path) = Head(regex)
    THEN MatchRest(Tail(regex), Tail(path))
  ELSE NoMatch

\* path.match(route.regex) (part_001:81), the expression being anchored at both ends.
Match(regex, path) == MatchRest(regex, path)

\* decodeURIComponent(s) raises a URIError.
DecodeFails(s) == \E k \in 1..Len(s) : s[k] = "%"

\* decodeURIComponent(s) (part_001:87).
Decode(s) == [k \in 1..Len(s) |-> IF s[k] = "%2F" THEN "/" ELSE s[k]]

\* The params object built by part_001:85-88: a name that occurs twice keeps the
\* capture of its last placeholder.
ParamsOf(route, caps) ==
  [n \in {route.paramNames[k] : k \in 1..Len(route.paramNames)} |->
     LET k == CHOOSE k \in 1..Len(route.paramNames) :
                /\ route.paramNames[k] = n
                /\ \A m \in (k + 1)..Len(route.paramNames) : route.paramNames[m] # n
     IN Decode(caps[k])]

\* The routes whose expression matches the path.
Matching(rs, path) == {k \in 1..Len(rs) : Match(rs[k].regex, path).ok}

\* A bug the loop could have: the last matching route wins.
FirstMatch_last(rs, path) ==
  IF Matching(rs, path) = {} THEN 0
  ELSE CHOOSE k \in Matching(rs, path) : \A m \in Matching(rs, path) : m <= k

\* The route the loop of handleRoute stops at (part_001:80-83); 0: none matches.
FirstMatch(rs, path) ==
  IF Matching(rs, path) = {} THEN 0
  ELSE CHOOSE k \in Matching(rs, path) : \A m \in Matching(rs, path) : k <= m

-----------------------------------------------------------------------------
(* Router.handleRoute (part_001:76-107) *)

Log(path, invoked, args, notFound, handlerRaised, outcome) ==
  [path |-> path, invoked |-> invoked, args |-> args, notFound |-> notFound,
   handlerRaised |-> handlerRaised, outcome |-> outcome, afterRaise |-> FALSE]

\* A bug the dispatch could have: no try around the handler, and the parameters are
\* stored after it returned.
Dispatched_noCatch(cp, path, route, params, raises) ==
  IF raises
    THEN [params |-> cp, log |-> Log(path, <<route.handler>>, params, 0, TRUE, "raised")]
    ELSE [params |-> params,
          log |-> Log(path, <<route.handler>>, params, 0, FALSE, "normal")]

\* part_001:91-100: the parameters are stored, the handler is invoked with them, and
\* what it raises is caught and logged.
Dispatched(cp, path, route, params, raises) ==
  [params |-> params, log |-> Log(path, <<route.handler>>, params, 0, raises, "normal")]

\* A bug the dispatch could have: the URIError is caught like an error of the handler.
DecodeRaised_caught(cp, path) ==
  [params |-> cp, log |-> Log(path, <<>>, EmptyParams, 0, FALSE, "normal")]

\* A bug the fallback could have: the parameters of the last match are dropped.
Unmatched_resets(cp, path) ==
  [params |-> EmptyParams, log |-> Log(path, <<>>, EmptyParams, 1, FALSE, "normal")]

\* part_001:105-106: no route matches, handle404 is invoked.
Unmatched(cp, path) ==
  [params |-> cp, log |-> Log(path, <<>>, EmptyParams, 1, FALSE, "normal")]

\* decodeURIComponent raises inside the forEach of part_001:86-88: the URIError leaves
\* handleRoute.
DecodeRaised(cp, path) ==
  [params |-> cp, log |-> Log(path, <<>>, EmptyParams, 0, FALSE, "raised")]

\* handleRoute() with the parameters cp stored, the routes rs, on the path `path`, its
\* handler raising or not: the parameters stored afterwards and what it did.
HandleRoute(cp, rs, path, raises) ==
  LET k == FirstMatch(rs, path) IN
    IF k = 0 THEN Unmatched(cp, path)
    ELSE LET caps == Match(rs[k].regex, path).caps IN
           IF \E g \in 1..Len(rs[k].paramNames) : DecodeFails(caps[g])
             THEN DecodeRaised(cp, path)
             ELSE Dispatched(cp, path, rs[k], ParamsOf(rs[k], caps), raises)

\* handleRoute() runs on the path `path`; a handler that is invoked returns or raises.
RunsHandleRoute(path) ==
  \E raises \in BOOLEAN :
    LET r == HandleRoute(currentParams, routes, path, raises) IN
      /\ r.log.handlerRaised = raises
      /\ currentParams' = r.params
      /\ dispatch' = [r.log EXCEPT !.afterRaise = dispatch.handlerRaised]

\* What no step of the Router touches.
nonRouterVars == <<loaderVars, joinVars, queryVars, searchVars>>

\* register(pattern, handler), part_001:33-49.
register(pattern) ==
  /\ Len(routes) < MaxRoutes
  /\ routes' = Append(routes, Route(pattern, Len(routes) + 1))
  /\ UNCHANGED <<currentParams, entries, index, listening, dispatch, got, nav>>
  /\ UNCHANGED nonRouterVars

\* A call of handleRoute().
handleRoute ==
  /\ RunsHandleRoute(entries[index].pathname)
  /\ UNCHANGED <<routes, entries, index, listening, got, nav>>
  /\ UNCHANGED nonRouterVars

\* init(), part_001:14-22: the popstate listener is bound and the starting path is
\* dispatched.  (init is called once.)
init ==
  /\ ~listening
  /\ listening' = TRUE
  /\ RunsHandleRoute(entries[index].pathname)
  /\ UNCHANGED <<routes, entries, index, got, nav>>
  /\ UNCHANGED nonRouterVars

\* A bug navigate could have: the flag is read the wrong way round.
NavigateHistory_swapped(url, replace) ==
  IF replace
    THEN [entries |-> Append(SubSeq(entries, 1, index), url), index |-> index + 1]
    ELSE [entries |-> [entries EXCEPT ![index] = url], index |-> index]

\* history.replaceState / history.pushState (part_001:62-66): replaceState changes the
\* URL of the current entry; pushState drops the entries after the current one and
\* adds a new one, which becomes current.
NavigateHistory(url, replace) ==
  IF replace
    THEN [entries |-> [entries EXCEPT ![index] = url], index |-> index]
    ELSE [entries |-> Append(SubSeq(entries, 1, index), url), index |-> index + 1]

\* navigate(path, replace), part_001:60-70.
navigate(url, replace) ==
  /\ replace \/ index < MaxEntries
  /\ entries' = NavigateHistory(url, replace).entries
  /\ index' = NavigateHistory(url, replace).index
  /\ nav' = [op |-> IF replace THEN "replace" ELSE "push", from |-> entries[index],
             to |-> url, at |-> index, after |-> "none"]
  /\ RunsHandleRoute(url.pathname)
  /\ UNCHANGED <<routes, listening, got>>
  /\ UNCHANGED nonRouterVars

\* A bug the listener could have: it navigates to the path again, which pushes.
Traversed_pushes(to) ==
  [entries |-> Append(SubSeq(entries, 1, to), entries[to]), index |-> to + 1]

\* The browser moves to the entry at position `to`; the listener (part_001:16-18) only
\* calls handleRoute.
Traversed(to) == [entries |-> entries, index |-> to]

\* The user goes back or forward by one entry (delta -1 or 1): the browser makes that
\* entry current and fires popstate, whose listener, if bound, calls handleRoute
\* (part_001:16-18).
Traverse(delta) ==
  /\ index + delta \in 1..Len(entries)
  /\ Len(Traversed(index + delta).entries) <= MaxEntries
  /\ entries' = Traversed(index + delta).entries
  /\ index' = Traversed(index + delta).index
  /\ nav' = [op |-> IF delta < 0 THEN "back" ELSE "forward", from |-> NoUrl,
             to |-> NoUrl, at |-> index, after |-> nav.op]
  /\ IF listening
       THEN RunsHandleRoute(entries[index + delta].pathname)
       ELSE UNCHANGED <<currentParams, dispatch>>
  /\ UNCHANGED <<routes, listening, got>>
  /\ UNCHANGED nonRouterVars

Back == Traverse(0 - 1)

Forward == Traverse(1)

\* The routes are registered and the current path is dispatched, on any short path.
InitDispatch ==
  /\ now = StartTime
  /\ cache = [k \in Keys |-> EmptySlot]
  /\ cacheDuration = DefaultCacheDuration
  /\ calls = [c \in Callers |-> IdleCall]
  /\ preload = IdlePreload
  /\ loads = 0
  /\ setAt = [k \in Keys |-> 0]
  /\ lastOverride = 0
  /\ recsIn = <<>> /\ contentIn = <<>> /\ joinOut = <<>> /\ joinPc = "idle"
  /\ query = IdleQuery
  /\ \E p \in Paths : RouterAt(Url(p, <<>>))
  /\ SearchIdle

NextDispatch ==
  \/ \E pattern \in Patterns : register(pattern)
  \/ handleRoute

SpecDispatch == InitDispatch /\ [][NextDispatch]_vars

-----------------------------------------------------------------------------
(* The Router of a small site once the application has registered its routes "/" and
   "/c/:t": the pages "/", "/c/b" and "/b" (which has no route), and the user's
   navigation *)

SitePaths == { <<"/">>, <<"/", "c", "/", "b">>, <<"/", "b">> }

SiteRoutes == <<Route(<<"/">>, 1), Route(<<"/", "c", "/", ":", "t">>, 2)>>

InitHistory ==
  /\ now = StartTime
  /\ cache = [k \in Keys |-> EmptySlot]
  /\ cacheDuration = DefaultCacheDuration
  /\ calls = [c \in Callers |-> IdleCall]
  /\ preload = IdlePreload
  /\ loads = 0
  /\ setAt = [k \in Keys |-> 0]
  /\ lastOverride = 0
  /\ recsIn = <<>> /\ contentIn = <<>> /\ joinOut = <<>> /\ joinPc = "idle"
  /\ query = IdleQuery
  /\ \E p \in SitePaths :
       /\ routes = SiteRoutes
       /\ currentParams = EmptyParams
       /\ entries = <<Url(p, <<>>)>>
       /\ index = 1
       /\ listening = FALSE
       /\ dispatch = NoDispatch
       /\ got = NoResult
       /\ nav = NoNav
  /\ SearchIdle

NextHistory ==
  \/ init
  \/ \E p \in SitePaths : \E replace \in BOOLEAN : navigate(Url(p, <<>>), replace)
  \/ Back
  \/ Forward
  \/ handleRoute

SpecHistory == InitHistory /\ [][NextHistory]_vars

-----------------------------------------------------------------------------
(* parseQueryString (src/js/utils.js:12-41) and the getters of the Router
   (part_001:134-185) *)

MaxQueryLen == 4    \* characters of location.search

\* The origin of the page's URL, as one character: it holds none of ? # & =.
Origin == "http://host"

\* The characters of a query string.
QueryChars == {"?", "&", "=", "t"}

\* What location.search can hold: nothing, or a question mark and what follows it.
Searches == {q \in SeqsUpTo(QueryChars, MaxQueryLen) : q # <<>> => q[1] = "?"}

\* window.location.href
Href(url) == <<Origin>> \o url.pathname \o url.search

\* str.includes(ch)
Includes(str, ch) == \E k \in 1..Len(str) : str[k] = ch

\* str.split(sep)
RECURSIVE Split(_, _)
Split(str, sep) ==
  IF ~Includes(str, sep) THEN <<str>>
  ELSE LET k == CHOOSE k \in 1..Len(str) :
                  str[k] = sep /\ \A j \in 1..(k - 1) : str[j] # sep
       IN <<SubSeq(str, 1, k - 1)>> \o Split(SubSeq(str, k + 1, Len(str)), sep)

\* obj[key] = value
Assign(obj, key, value) ==
  [k \in DOMAIN obj \cup {key} |-> IF k = key THEN value ELSE obj[k]]

\* The forEach of utils.js:27-37 over the parameters from position i on: a parameter
\* with a key is stored decoded, or as it is if its key or its value does not decode.
RECURSIVE ParamsFrom(_, _, _)
ParamsFrom(list, i, params) ==
  IF i > Len(list) THEN params
  ELSE LET pieces == Split(list[i], "=")
           key == pieces[1]
           value == IF Len(pieces) > 1 THEN pieces[2] ELSE <<>>
       IN IF key = <<>> THEN ParamsFrom(list, i + 1, params)
          ELSE IF DecodeFails(key) \/ DecodeFails(value)
            THEN ParamsFrom(list, i + 1, Assign(params, key, value))
            ELSE ParamsFrom(list, i + 1, Assign(params, Decode(key), Decode(value)))

\* parseQueryString(url), utils.js:12-41: without a question mark the whole URL is
\* taken for the query string.
parseQueryString(url) ==
  LET queryString == IF Includes(url, "?") THEN Split(url, "?")[2] ELSE url
      cleanQueryString == Split(queryString, "#")[1]
  IN IF cleanQueryString = <<>> THEN EmptyParams
     ELSE ParamsFrom(Split(cleanQueryString, "&"), 1, EmptyParams)

\* A bug the merge could have: the keys of the first object are kept.
Spread_firstWins(first, second) ==
  [k \in DOMAIN first \cup DOMAIN second |->
     IF k \in DOMAIN first THEN first[k] ELSE second[k]]

\* { ...first, ...second } (part_001:157-160): a key of both has the value of second.
Spread(first, second) ==
  [k \in DOMAIN first \cup DOMAIN second |->
     IF k \in DOMAIN second THEN second[k] ELSE first[k]]

\* What getParams() returns (part_001:134-136).
ParamsResult ==
  [op |-> "getParams", alias |-> FALSE,
   value |-> parseQueryString(Href(entries[index]))]

\* A bug getPathParams could have: it returns this.currentParams itself.
PathParamsResult_alias ==
  [op |-> "getPathParams", alias |-> TRUE, value |-> currentParams]

\* What getPathParams() returns (part_001:145-147): a copy.
PathParamsResult ==
  [op |-> "getPathParams", alias |-> FALSE, value |-> currentParams]

\* What getAllParams() returns (part_001:156-161).
AllParamsResult ==
  [op |-> "getAllParams", alias |-> FALSE,
   value |-> Spread(currentParams, parseQueryString(Href(entries[index])))]

\* A call of a getter; it returns `result`.
Gets(result) ==
  /\ got' = result
  /\ UNCHANGED <<routes, currentParams, entries, index, listening, dispatch, nav>>
  /\ UNCHANGED nonRouterVars

getParams == Gets(ParamsResult)

getPathParams == Gets(PathParamsResult)

getAllParams == Gets(AllParamsResult)

\* getCurrentPath(), part_001:167-169: it returns a string.
getCurrentPath ==
  Gets([op |-> "getCurrentPath", alias |-> FALSE, value |-> entries[index].pathname])

\* The caller of a getter changes the object it was given: a change of the router's
\* own object is a change of currentParams.
MutateResult(key, value) ==
  /\ got.op \in {"getParams", "getPathParams", "getAllParams"}
  /\ got' = [got EXCEPT !.value = Assign(got.value, key, value)]
  /\ currentParams' = IF got.alias THEN Assign(currentParams, key, value)
                                   ELSE currentParams
  /\ UNCHANGED <<routes, entries, index, listening, dispatch, nav>>
  /\ UNCHANGED nonRouterVars

\* A bug clearRoutes could have: the parameters are kept.
Cleared_routesOnly == [routes |-> <<>>, currentParams |-> currentParams]

\* What clearRoutes() assigns (part_001:183-184).
Cleared == [routes |-> <<>>, currentParams |-> EmptyParams]

\* clearRoutes(), part_001:182-185.
clearRoutes ==
  /\ routes' = Cleared.routes
  /\ currentParams' = Cleared.currentParams
  /\ UNCHANGED <<entries, index, listening, dispatch, got, nav>>
  /\ UNCHANGED nonRouterVars

\* The patterns registered while the getters are looked at: "/c/:t" and "/:t".
ParamPatterns == { <<"/", "c", "/", ":", "t">>, <<"/", ":", "t">> }

\* The page is "/c/b", with any short query string; routes are registered, the path is
\* dispatched and the parameters are asked for.
InitParams ==
  /\ now = StartTime
  /\ cache = [k \in Keys |-> EmptySlot]
  /\ cacheDuration = DefaultCacheDuration
  /\ calls = [c \in Callers |-> IdleCall]
  /\ preload = IdlePreload
  /\ loads = 0
  /\ setAt = [k \in Keys |-> 0]
  /\ lastOverride = 0
  /\ recsIn = <<>> /\ contentIn = <<>> /\ joinOut = <<>> /\ joinPc = "idle"
  /\ query = IdleQuery
  /\ \E q \in Searches : RouterAt(Url(<<"/", "c", "/", "b">>, q))
  /\ SearchIdle

NextParams ==
  \/ \E pattern \in ParamPatterns : register(pattern)
  \/ handleRoute
  \/ getAllParams

SpecParams == InitParams /\ [][NextParams]_vars

\* The page is "/c/b", without a query string or with "?t=t"; every operation of the
\* Router but the navigation, and a caller that changes the objects it is given.
InitGetters ==
  /\ now = StartTime
  /\ cache = [k \in Keys |-> EmptySlot]
  /\ cacheDuration = DefaultCacheDuration
  /\ calls = [c \in Callers |-> IdleCall]
  /\ preload = IdlePreload
  /\ loads = 0
  /\ setAt = [k \in Keys |-> 0]
  /\ lastOverride = 0
  /\ recsIn = <<>> /\ contentIn = <<>> /\ joinOut = <<>> /\ joinPc = "idle"
  /\ query = IdleQuery
  /\ \E q \in {<<>>, <<"?", "t", "=", "t">>} : RouterAt(Url(<<"/", "c", "/", "b">>, q))
  /\ SearchIdle

NextGetters ==
  \/ \E pattern \in ParamPatterns : register(pattern)
  \/ handleRoute
  \/ clearRoutes
  \/ getParams
  \/ getPathParams
  \/ getAllParams
  \/ getCurrentPath
  \/ MutateResult(<<"t">>, <<"=">>)

SpecGetters == InitGetters /\ [][NextGetters]_vars

-----------------------------------------------------------------------------
(* SearchEngine.search (part_001:216-259) *)

MaxData == 2         \* items of the snapshot
MaxKeywordLen == 3   \* characters of a keyword

TitleWeight == 2
DescriptionWeight == 1

LittlePrince == <<"L", "i", "t", "t", "l", "e", " ", "P", "r", "i", "n", "c", "e">>
AStoryAboutAPrince ==
  <<"a", " ", "s", "t", "o", "r", "y", " ", "a", "b", "o", "u", "t", " ",
    "a", " ", "p", "r", "i", "n", "c", "e">>
Prince == <<"p", "r", "i", "n", "c", "e">>
PrinceStory == Prince \o <<" ", "s", "t", "o", "r", "y">>
Dragon == <<"d", "r", "a", "g", "o", "n">>

\* The items a snapshot is made of; "" is a missing title or description.
Items ==
  { [title |-> LittlePrince, description |-> AStoryAboutAPrince],
    [title |-> <<"a", "b">>, description |-> <<"a">>],
    [title |-> <<"A", " ", "b">>, description |-> <<>>],
    [title |-> <<>>, description |-> <<"a", "a", " ", "b">>],
    [title |-> <<"b">>, description |-> <<"a", "b">>] }

\* The snapshots: the item at position j is the object j.
DataSets ==
  {[j \in 1..Len(d) |-> [id |-> j, title |-> d[j].title, description |-> d[j].description]] :
     d \in SeqsUpTo(Items, MaxData)}

\* The keywords: every short one over a letter, its capital, another letter and the
\* space, and those of the example.
Keywords ==
  SeqsUpTo({"a", "A", "b", " "}, MaxKeywordLen) \cup {Prince, PrinceStory, Dragon}

\* toLowerCase() of a character: the capitals in use are A, L and P.
Lower(ch) ==
  CASE ch = "A" -> "a" [] ch = "L" -> "l" [] ch = "P" -> "p" [] OTHER -> ch

\* str.toLowerCase()
ToLower(str) == [k \in 1..Len(str) |-> Lower(str[k])]

\* str.trim()
RECURSIVE Trim(_)
Trim(str) ==
  IF str = <<>> THEN <<>>
  ELSE IF Head(str) = " " THEN Trim(Tail(str))
  ELSE IF str[Len(str)] = " " THEN Trim(SubSeq(str, 1, Len(str) - 1))
  ELSE str

\* str.split(/\s+/): a run of spaces separates two pieces.
RECURSIVE SplitSpaces(_)
SplitSpaces(str) ==
  IF ~Includes(str, " ") THEN <<str>>
  ELSE LET k == CHOOSE k \in 1..Len(str) :
                  str[k] = " " /\ \A j \in 1..(k - 1) : str[j] # " "
           n == CHOOSE n \in k..Len(str) :
                  /\ \A j \in k..n : str[j] = " "
                  /\ (n = Len(str) \/ str[n + 1] # " ")
       IN <<SubSeq(str, 1, k - 1)>> \o SplitSpaces(SubSeq(str, n + 1, Len(str)))

\* keyword.toLowerCase().trim().split(/\s+/).filter(kw => kw !== '') (part_001:223)
SearchTerms(kw) ==
  LET NotEmpty(piece) == piece # <<>>
  IN SelectSeq(SplitSpaces(Trim(ToLower(kw))), NotEmpty)

\* text.includes(term)
Contains(text, term) ==
  \E k \in 0..(Len(text) - Len(term)) : SubSeq(text, k + 1, k + Len(term)) = term

\* How often term occurs in text.
Occurrences(text, term) ==
  Cardinality({k \in 0..(Len(text) - Len(term)) : SubSeq(text, k + 1, k + Len(term)) = term})

\* A bug the scoring could have: every occurrence of the term in the field counts.
FieldScore_perOccurrence(text, term, weight) == weight * Occurrences(text, term)

\* What a term adds for one field (part_001:240-245).
FieldScore(text, term, weight) == IF Contains(text, term) THEN weight ELSE 0

\* A bug the scoring could have: a term the keyword repeats counts once.
RECURSIVE ScoreFrom_distinct(_, _, _)
ScoreFrom_distinct(item, terms, k) ==
  IF k > Len(terms) THEN 0
  ELSE IF \E j \in 1..(k - 1) : terms[j] = terms[k]
    THEN ScoreFrom_distinct(item, terms, k + 1)
    ELSE FieldScore(ToLower(item.title), terms[k], TitleWeight)
           + FieldScore(ToLower(item.description), terms[k], DescriptionWeight)
           + ScoreFrom_distinct(item, terms, k + 1)

\* The score of the item after the terms from position k on (part_001:233-246).
RECURSIVE ScoreFrom(_, _, _)
ScoreFrom(item, terms, k) ==
  IF k > Len(terms) THEN 0
  ELSE FieldScore(ToLower(item.title), terms[k], TitleWeight)
         + FieldScore(ToLower(item.description), terms[k], DescriptionWeight)
         + ScoreFrom(item, terms, k + 1)

\* A bug the filter could have: every item is kept.
Keeps_all(score) == TRUE

\* `if (score > 0)` (part_001:249)
Keeps(score) == score > 0

\* A bug the comparator could have: ascending order.
ScoreCompare_ascending(a, b) == a.score - b.score

\* The comparator of the sort (part_001:255).
ScoreCompare(a, b) == b.score - a.score

\* A bug the sort could have (a sort that is not stable): x is put before the
\* elements that compare equal to it.
RankInsert_unstable(sorted, x) ==
  LET k == Cardinality({i \in 1..Len(sorted) : ScoreCompare(sorted[i], x) < 0})
  IN SubSeq(sorted, 1, k) \o <<x>> \o SubSeq(sorted, k + 1, Len(sorted))

\* Array.prototype.sort, which is stable, with that comparator.
RankInsert(sorted, x) ==
  LET k == Cardinality({i \in 1..Len(sorted) : ScoreCompare(sorted[i], x) <= 0})
  IN SubSeq(sorted, 1, k) \o <<x>> \o SubSeq(sorted, k + 1, Len(sorted))

RECURSIVE Rank(_)
Rank(s) ==
  IF s = <<>> THEN <<>>
  ELSE RankInsert(Rank(SubSeq(s, 1, Len(s) - 1)), s[Len(s)])

\* search(keyword) over the snapshot d, part_001:216-259.
Search(d, kw) ==
  IF kw = <<>> \/ Trim(kw) = <<>> THEN <<>>
  ELSE LET terms == SearchTerms(kw)
           scored == [j \in 1..Len(d) |-> [item |-> d[j], score |-> ScoreFrom(d[j], terms, 1)]]
           IsKept(r) == Keeps(r.score)
           ranked == Rank(SelectSeq(scored, IsKept))
       IN IF terms = <<>> THEN <<>>
          ELSE [j \in 1..Len(ranked) |-> ranked[j].item]

\* What no step of the SearchEngine touches.
nonSearchVars == <<loaderVars, joinVars, queryVars, routerVars>>

\* setData(contentArray), part_001:203-205; given = FALSE: the argument is missing.
setData(given, contentArray) ==
  /\ searchPc = "idle"
  /\ searchData = <<>>
  /\ searchData' = IF given THEN contentArray ELSE <<>>
  /\ UNCHANGED <<keyword, results, searchPc, hlText, hlKeyword, hlOut, hlPc>>
  /\ UNCHANGED nonSearchVars

\* A call of search(keyword).
search(kw) ==
  /\ searchPc = "idle"
  /\ keyword' = kw
  /\ results' = Search(searchData, kw)
  /\ searchPc' = "done"
  /\ UNCHANGED <<searchData, hlText, hlKeyword, hlOut, hlPc>>
  /\ UNCHANGED nonSearchVars

\* The engine after construction: a snapshot is set and searched once.
InitSearch ==
  /\ now = StartTime
  /\ cache = [k \in Keys |-> EmptySlot]
  /\ cacheDuration = DefaultCacheDuration
  /\ calls = [c \in Callers |-> IdleCall]
  /\ preload = IdlePreload
  /\ loads = 0
  /\ setAt = [k \in Keys |-> 0]
  /\ lastOverride = 0
  /\ recsIn = <<>> /\ contentIn = <<>> /\ joinOut = <<>> /\ joinPc = "idle"
  /\ query = IdleQuery
  /\ SiteIdle

NextSearch ==
  \/ \E d \in DataSets : \E given \in BOOLEAN : setData(given, d)
  \/ \E kw \in Keywords : search(kw)

SpecSearch == InitSearch /\ [][NextSearch]_vars

-----------------------------------------------------------------------------
(* A search that is made a second time, with the same keyword over the same snapshot *)

\* The second call of search(keyword), with the keyword of the first.
searchAgain ==
  /\ searchPc = "done"
  /\ results' = Search(searchData, keyword)
  /\ searchPc' = "again"
  /\ UNCHANGED <<searchData, keyword, hlText, hlKeyword, hlOut, hlPc>>
  /\ UNCHANGED nonSearchVars

NextTies ==
  \/ \E d \in DataSets : \E given \in BOOLEAN : setData(given, d)
  \/ \E kw \in Keywords : search(kw)
  \/ searchAgain

SpecTies == InitSearch /\ [][NextTies]_vars

-----------------------------------------------------------------------------
(* Searches with keywords that repeat a term *)

PrincePrince == Prince \o <<" ">> \o Prince

\* The keywords: the short ones, those of the example, and two that repeat a term.
RepeatKeywords == Keywords \cup {PrincePrince, <<"a", " ", "a", " ", "b">>}

NextRepeat ==
  \/ \E d \in DataSets : \E given \in BOOLEAN : setData(given, d)
  \/ \E kw \in RepeatKeywords : search(kw)

SpecRepeat == InitSearch /\ [][NextRepeat]_vars

-----------------------------------------------------------------------------
(* SearchEngine.highlight and _escapeRegex (part_001:267-301) *)

MaxTextLen == 3      \* characters of a text to highlight

TheQuickFox == <<"t", "h", "e", " ", "q", "u", "i", "c", "k", " ", "f", "o", "x">>
Quick == <<"q", "u", "i", "c", "k">>

\* The texts and the keywords of highlight: every short one over a letter, its capital
\* and the dot (and the space, in a keyword), and those of the example.
Texts == SeqsUpTo({"a", "A", "."}, MaxTextLen) \cup {TheQuickFox}
HighlightKeywords == SeqsUpTo({"a", "A", ".", " "}, MaxKeywordLen) \cup {Quick}

\* The markers, as the characters they are.
OpenMark == <<"<", "m", "a", "r", "k", ">">>
CloseMark == <<"<", "/", "m", "a", "r", "k", ">">>

\* The characters of the class of _escapeRegex (part_001:268).
MetaChars == {".", "*", "+", "?", "^", "$", "{", "}", "(", ")", "|", "[", "]", "\\"}

\* A bug _escapeRegex could have: nothing is escaped.
escapeRegex_none(str) == [k \in 1..Len(str) |-> [esc |-> FALSE, ch |-> str[k]]]

\* _escapeRegex(str), part_001:267-271: the source of a regular expression, as its
\* elements; a character of the class gets a backslash in front.
escapeRegex(str) == [k \in 1..Len(str) |-> [esc |-> str[k] \in MetaChars, ch |-> str[k]]]

\* An element of the expression new RegExp(`(${escapedKw})`, 'gi') matches the
\* character: an escaped character itself, a bare dot any character, any other character
\* itself whatever its case.
ElementMatches(el, ch) ==
  IF el.esc THEN ch = el.ch
  ELSE IF el.ch = "." THEN TRUE
  ELSE Lower(ch) = Lower(el.ch)

\* The expression matches the text at position i.
MatchesAt(regex, text, i) ==
  /\ i + Len(regex) - 1 <= Len(text)
  /\ \A k \in 1..Len(regex) : ElementMatches(regex[k], text[i + k - 1])

\* result.replace(regex, '<mark>$1</mark>') from position i on (part_001:297): the
\* matches are taken from left to right and do not overlap.
RECURSIVE ReplaceFrom(_, _, _)
ReplaceFrom(text, regex, i) ==
  IF i > Len(text) THEN <<>>
  ELSE IF MatchesAt(regex, text, i)
    THEN OpenMark \o SubSeq(text, i, i + Len(regex) - 1) \o CloseMark
           \o ReplaceFrom(text, regex, i + Len(regex))
    ELSE <<text[i]>> \o ReplaceFrom(text, regex, i + 1)

\* keyword.split(/\s+/).filter(kw => kw.trim() !== '') (part_001:287)
HighlightTerms(kw) ==
  LET NotBlank(piece) == Trim(piece) # <<>>
  IN SelectSeq(SplitSpaces(kw), NotBlank)

\* The forEach of part_001:291-298 from the term at position k on.
RECURSIVE HighlightFrom(_, _, _)
HighlightFrom(result, terms, k) ==
  IF k > Len(terms) THEN result
  ELSE HighlightFrom(ReplaceFrom(result, escapeRegex(terms[k]), 1), terms, k + 1)

\* highlight(text, keyword), part_001:281-301.
Highlight(text, kw) ==
  IF kw = <<>> \/ text = <<>> THEN text
  ELSE HighlightFrom(text, HighlightTerms(kw), 1)

\* A call of highlight on the text and the keyword chosen.
highlight ==
  /\ hlPc = "idle"
  /\ hlOut' = Highlight(hlText, hlKeyword)
  /\ hlPc' = "done"
  /\ UNCHANGED <<searchData, keyword, results, searchPc, hlText, hlKeyword>>
  /\ UNCHANGED nonSearchVars

InitHighlight ==
  /\ now = StartTime
  /\ cache = [k \in Keys |-> EmptySlot]
  /\ cacheDuration = DefaultCacheDuration
  /\ calls = [c \in Callers |-> IdleCall]
  /\ preload = IdlePreload
  /\ loads = 0
  /\ setAt = [k \in Keys |-> 0]
  /\ lastOverride = 0
  /\ recsIn = <<>> /\ contentIn = <<>> /\ joinOut = <<>> /\ joinPc = "idle"
  /\ query = IdleQuery
  /\ RouterAt(Url(SLASH, <<>>))
  /\ searchData = <<>>
  /\ keyword = <<>> /\ results = <<>> /\ searchPc = "idle"
  /\ hlText \in Texts
  /\ hlKeyword \in HighlightKeywords
  /\ hlOut = <<>>
  /\ hlPc = "idle"

NextHighlight == highlight

SpecHighlight == InitHighlight /\ [][NextHighlight]_vars

-----------------------------------------------------------------------------
(* The Router of a site with a third route, "/:t/:i", behind the two of the small site:
   its pages, "/c/%" with a malformed escape among them, navigated to, and its path
   parameters read *)

PagePaths == SitePaths \cup { <<"/", "c", "/", "%">> }

PageRoutes == Append(SiteRoutes, Route(<<"/", ":", "t", "/", ":", "i">>, 3))

InitPages ==
  /\ now = StartTime
  /\ cache = [k \in Keys |-> EmptySlot]
  /\ cacheDuration = DefaultCacheDuration
  /\ calls = [c \in Callers |-> IdleCall]
  /\ preload = IdlePreload
  /\ loads = 0
  /\ setAt = [k \in Keys |-> 0]
  /\ lastOverride = 0
  /\ recsIn = <<>> /\ contentIn = <<>> /\ joinOut = <<>> /\ joinPc = "idle"
  /\ query = IdleQuery
  /\ \E p \in SitePaths :
       /\ routes = PageRoutes
       /\ currentParams = EmptyParams
       /\ entries = <<Url(p, <<>>)>>
       /\ index = 1
       /\ listening = FALSE
       /\ dispatch = NoDispatch
       /\ got = NoResult
       /\ nav = NoNav
  /\ SearchIdle

NextPages ==
  \/ \E p \in PagePaths : \E replace \in BOOLEAN : navigate(Url(p, <<>>), replace)
  \/ handleRoute
  \/ getPathParams

SpecPages == InitPages /\ [][NextPages]_vars

-----------------------------------------------------------------------------
(* Properties of the loads *)

\* The slot holds data.
Populated(key) == cache[key].data # NULL

\* The age of the slot's entry, by the history of setCache.
Age(key) == now - setAt[key]

\* The slot is fresh by the data model's rule: data is present and younger than the TTL.
Fresh(key) == Populated(key) /\ Age(key) < cacheDuration

\* The step ends call c (it returns or raises).
Ends(c) == calls[c].pc \in {"fetching", "parsing"} /\ calls'[c].pc = "done"

\* The step ends call c in the catch block, after fetchWithRetry gave up.
EndsByTransportFailure(c) ==
  calls[c].pc = "fetching" /\ calls'[c].pc = "done" /\ calls'[c].cause = "transport"

\* The step is the call of a load by caller c.
Begins(c) == calls[c].pc \in {"idle", "done"} /\ loads' = loads + 1

\* C1: a load never invokes the transport more than maxRetries + 1 times; a load of
\* an empty slot whose every attempt fails has invoked it exactly maxRetries + 1 times
\* when it ends, and it ends by raising a LoadFailure.
RetryBound ==
  /\ [](\A c \in DOMAIN calls : calls[c].attempts <= maxRetries + 1)
  /\ [][\A c \in DOMAIN calls :
          (EndsByTransportFailure(c) /\ ~Populated(calls[c].key))
            => /\ calls'[c].attempts = maxRetries + 1
               /\ calls'[c].status = "raised"]_vars

RetryBoundWitness ==
  \E c \in DOMAIN calls :
    /\ calls[c].pc = "done" /\ calls[c].status = "raised"
    /\ calls[c].cause = "transport" /\ calls[c].attempts = maxRetries + 1

\* C2: a load of a slot holding expired data whose every attempt fails returns the
\* expired data, after maxRetries + 1 attempts, and does not raise.
StaleFallback ==
  [][\A c \in DOMAIN calls :
       (EndsByTransportFailure(c) /\ Populated(calls[c].key)
          /\ Age(calls[c].key) >= cacheDuration)
         => /\ calls'[c].status = "returned"
            /\ calls'[c].value = cache[calls[c].key].data
            /\ calls'[c].attempts = maxRetries + 1]_vars

StaleFallbackWitness ==
  \E c \in DOMAIN calls :
    /\ calls[c].pc = "done" /\ calls[c].via = "stale" /\ calls[c].cause = "transport"
    /\ calls[c].attempts = maxRetries + 1
    /\ Populated(calls[c].key) /\ Age(calls[c].key) >= cacheDuration
    /\ calls[c].value = cache[calls[c].key].data

\* C3: a load called while its slot is fresh returns the slot's data, invokes the
\* transport not once and leaves the cache as it is.
FreshHit ==
  [][\A c \in DOMAIN calls : \A key \in Keys :
       (Begins(c) /\ calls'[c].key = key /\ Fresh(key))
         => /\ calls'[c].pc = "done"
            /\ calls'[c].status = "returned"
            /\ calls'[c].value = cache[key].data
            /\ calls'[c].attempts = 0
            /\ cache' = cache]_vars

FreshHitWitness ==
  \E c \in DOMAIN calls :
    /\ calls[c].pc = "done" /\ calls[c].via = "hit" /\ calls[c].attempts = 0
    /\ Fresh(calls[c].key) /\ calls[c].value = cache[calls[c].key].data

\* C4: isCacheValid(key) is true exactly when the slot holds data and the time since
\* the last setCache of the slot is strictly less than cacheDuration.
CacheFreshness ==
  \A key \in Keys : isCacheValid(key) <=> (Populated(key) /\ Age(key) < cacheDuration)

\* An entry exactly as old as the TTL, which is not valid.
CacheFreshnessWitness ==
  \E key \in Keys : Populated(key) /\ Age(key) = cacheDuration /\ ~isCacheValid(key)

\* C5: no step of a load empties a populated slot, and a load raises only when its
\* slot is empty; so from a successful load until a clear of the slot every load of
\* the dataset returns data.
LoadsNeverEvict ==
  [][/\ (calls' # calls \/ loads' # loads)
          => \A key \in Keys : Populated(key) => Populated(key)'
     /\ \A c \in DOMAIN calls :
          (Ends(c) /\ calls'[c].status = "raised") => ~Populated(calls[c].key)]_vars

\* A load that was answered with an unusable body and returned the slot's data.
LoadsNeverEvictWitness ==
  \E c \in DOMAIN calls :
    /\ calls[c].pc = "done" /\ calls[c].status = "returned"
    /\ calls[c].cause \in {"parse", "shape"}
    /\ calls[c].value = cache[calls[c].key].data

\* C6: once a fetched config carried the TTL D, every slot is fresh exactly when it
\* holds data and the time since its own last setCache is less than D (the latest
\* such D): the entries are judged by their old timestamps against the new TTL.
OverrideNotRetroactive ==
  lastOverride # 0 =>
    \A key \in Keys : isCacheValid(key) <=> (Populated(key) /\ Age(key) < lastOverride)

\* An entry cached before the config was fetched, fresh under the default TTL and
\* stale under the override.
OverrideNotRetroactiveWitness ==
  /\ lastOverride # 0
  /\ \E key \in Keys \ {"config"} :
       /\ Populated(key) /\ setAt[key] < setAt["config"]
       /\ Age(key) >= lastOverride /\ Age(key) < DefaultCacheDuration
       /\ ~isCacheValid(key)

\* An entry cached before the config was fetched, stale under the default TTL and
\* fresh under the override.
OverrideRevivesWitness ==
  /\ lastOverride # 0
  /\ \E key \in Keys \ {"config"} :
       /\ Populated(key) /\ setAt[key] < setAt["config"]
       /\ Age(key) >= DefaultCacheDuration /\ Age(key) < lastOverride
       /\ isCacheValid(key)

-----------------------------------------------------------------------------
(* Properties of the retries *)

\* The step issues a request of call c that is not its first.
Retries(c) == calls[c].pc = "delay" /\ calls'[c].pc = "fetching"

\* The step handles the body of the response that ended fetchWithRetry of call c.
EndsAfterResponse(c) == calls[c].pc = "parsing" /\ calls'[c].pc = "done"

\* What the retries of C21 do, whatever the body of the first ok response is: a
\* request is issued only by the call of the load and by a retry, a retry only out of
\* the one delay that the failure of the request before it began, retryDelay after
\* that failure or later, and it takes one from the retries left; nothing is issued
\* once a response was ok.
RetriesInSequence ==
  /\ [](\A c \in DOMAIN calls :
          calls[c].pc \in {"fetching", "delay"} =>
            calls[c].retries + calls[c].attempts = maxRetries + 1)
  /\ [][\A c \in DOMAIN calls :
          /\ (calls'[c].attempts # calls[c].attempts) => (Begins(c) \/ Retries(c))
          /\ Retries(c) => /\ calls'[c].attempts = calls[c].attempts + 1
                           /\ calls'[c].retries = calls[c].retries - 1
                           /\ now >= calls[c].wakeAt
          /\ (calls'[c].pc = "delay" /\ calls[c].pc # "delay")
               => /\ calls[c].pc = "fetching"
                  /\ calls'[c].wakeAt = now + retryDelay
                  /\ calls'[c].attempts = calls[c].attempts
          /\ (calls'[c].pc = "fetching" /\ calls[c].pc # "fetching")
               => (Begins(c) \/ Retries(c))
          /\ (calls[c].pc = "fetching" /\ calls'[c].pc = "parsing")
               => calls'[c].attempts = calls[c].attempts]_vars

\* C21 as claimed: the retries are in sequence, and the load whose attempt k is the
\* first with an ok response has invoked the transport k times when it ends, returns
\* the payload of the response and has stored it.
FirstSuccessStores ==
  /\ RetriesInSequence
  /\ [][\A c \in DOMAIN calls :
          EndsAfterResponse(c)
            => /\ calls'[c].attempts = calls[c].attempts
               /\ calls'[c].status = "returned" /\ calls'[c].via = "fetched"
               /\ cache'[calls[c].key] = [data |-> calls'[c].value, timestamp |-> now]]_vars

\* C21, amended: the retries are in sequence, and the load whose attempt k is the
\* first with an ok response has invoked the transport k times when it ends; if the
\* body of that response parses and passes the shape check, the load returns its
\* payload and has stored it.
FirstSuccessEnds ==
  /\ RetriesInSequence
  /\ [][\A c \in DOMAIN calls :
          EndsAfterResponse(c)
            => /\ calls'[c].attempts = calls[c].attempts
               /\ calls'[c].cause \in {"none", "parse", "shape"}
               /\ (calls'[c].cause = "none")
                    => /\ calls'[c].status = "returned" /\ calls'[c].via = "fetched"
                       /\ cache'[calls[c].key]
                            = [data |-> calls'[c].value, timestamp |-> now]]_vars

\* A load whose third request was the first to be answered ok, two delays after its
\* call or later, and which stored what it fetched.
FirstSuccessEndsWitness ==
  \E c \in DOMAIN calls :
    /\ calls[c].pc = "done" /\ calls[c].via = "fetched" /\ calls[c].attempts = 3
    /\ cache[calls[c].key].data = calls[c].value
    /\ now >= StartTime + 2 * retryDelay

\* A load whose last request, the one after maxRetries retries, was answered ok, but
\* with a body that failed the shape check.
LastAttemptUnusableWitness ==
  \E c \in DOMAIN calls :
    /\ calls[c].pc = "done" /\ calls[c].cause = "shape"
    /\ calls[c].attempts = maxRetries + 1

\* The body is one a load cannot use: it does not parse, or it lacks the list field
\* content / recommendations, or one of site, contentTypes and ageRatings.
Unusable(key, body) ==
  \/ ~body.parses
  \/ key = "config" /\ ~({"site", "contentTypes", "ageRatings"} \subseteq body.has)
  \/ key # "config" /\ body.list # "array"

\* The step hands call c, of a load of the dataset key, a body it cannot use.
GetsUnusable(c, key) ==
  /\ calls[c].pc = "parsing" /\ calls[c].key = key
  /\ calls'[c].pc # "parsing"
  /\ \E body \in Bodies(key) : Unusable(key, body) /\ BodyArrives(c, body)

\* What a load does with a body it cannot use: it ends without another request, the
\* cache and the TTL are as before, and it returns the data of its slot if the slot
\* holds any and raises a LoadFailure if not.
UnusableBodyHandled(c, key) ==
  /\ calls'[c].pc = "done"
  /\ calls'[c].attempts = calls[c].attempts
  /\ cache' = cache /\ setAt' = setAt
  /\ cacheDuration' = cacheDuration
  /\ IF Populated(key)
       THEN calls'[c].status = "returned" /\ calls'[c].value = cache[key].data
       ELSE calls'[c].status = "raised" /\ calls'[c].cause \in {"parse", "shape"}

\* C22 as claimed: an ok response with a body the load cannot use is not stored and
\* not retried, the load has invoked the transport exactly once, it returns the data
\* of its slot or raises a LoadFailure, and the TTL is unchanged.
UnusableBodyOneRequest ==
  [][\A c \in DOMAIN calls : \A key \in Keys :
       GetsUnusable(c, key)
         => (UnusableBodyHandled(c, key) /\ calls'[c].attempts = 1)]_vars

\* C22, amended: an ok response with a body the load cannot use is not stored and not
\* retried: the load issues no request after it (it has invoked the transport exactly
\* once if the response answers its first request), it returns the data of its slot
\* or raises a LoadFailure, and the TTL is unchanged.
UnusableBodyNotRetried ==
  [][\A c \in DOMAIN calls : \A key \in Keys :
       GetsUnusable(c, key)
         => /\ UnusableBodyHandled(c, key)
            /\ \A d \in DOMAIN calls : calls'[d].pc = "fetching" => calls[d].pc = "fetching"]_vars

\* A load of the config that was answered at once, with a body lacking a field, and
\* returned the config it had; the TTL is the one that config carried.
UnusableBodyNotRetriedWitness ==
  \E c \in DOMAIN calls :
    /\ calls[c].pc = "done" /\ calls[c].key = "config"
    /\ calls[c].cause = "shape" /\ calls[c].attempts = 1
    /\ calls[c].status = "returned" /\ calls[c].value = cache["config"].data
    /\ cacheDuration = lastOverride

\* A load of an empty slot that was answered at once, with a body that does not
\* parse, and raised.
UnusableBodyRaisedWitness ==
  \E c \in DOMAIN calls :
    /\ calls[c].pc = "done" /\ calls[c].cause = "parse" /\ calls[c].attempts = 1
    /\ calls[c].status = "raised" /\ ~Populated(calls[c].key)

\* The step ends call c in the catch block: with the data of its slot or a LoadFailure.
EndsInCatch(c) == Ends(c) /\ calls'[c].via \in {"stale", "raised"}

\* The step is the call of a load of the dataset whose load before it, by the same
\* caller, fell back to the data of the slot.
BeginsAfterFallback(c) ==
  Begins(c) /\ calls'[c].after = "stale"

\* C23: a load that ends in its catch block leaves the data and the timestamp of every
\* slot and the TTL as they are; the entry a load fell back to is not stamped anew
\* and not fresh, and the next load of the dataset issues a request.
FailureKeepsCache ==
  /\ [][\A c \in DOMAIN calls :
          EndsInCatch(c)
            => /\ cache' = cache /\ setAt' = setAt
               /\ cacheDuration' = cacheDuration
               /\ (calls'[c].via = "stale")
                    => /\ Populated(calls[c].key)'
                       /\ ~isCacheValid(calls[c].key)'
                       /\ ~Fresh(calls[c].key)']_vars
  /\ [][\A c \in DOMAIN calls :
          BeginsAfterFallback(c)
            => (calls'[c].pc = "fetching" /\ calls'[c].attempts = 1)]_vars

\* The load after a load that fell back to an expired entry has a request in flight,
\* and the entry has the timestamp it was loaded with.
FailureKeepsCacheWitness ==
  \E c \in DOMAIN calls :
    /\ calls[c].after = "stale" /\ calls[c].pc = "fetching" /\ calls[c].attempts = 1
    /\ Populated(calls[c].key)
    /\ cache[calls[c].key].timestamp = StartTime
    /\ Age(calls[c].key) >= cacheDuration
    /\ \A k \in Keys : Populated(k)

\* A load raised a LoadFailure after the cache was cleared, and the slots are empty.
FailureRaisedWitness ==
  \E c \in DOMAIN calls :
    /\ calls[c].pc = "done" /\ calls[c].via = "raised"
    /\ \A k \in Keys : ~Populated(k)

\* The step ends call c, a loadConfig, with a fetched payload that carries a TTL.
FetchesOverride(c) ==
  /\ calls[c].pc = "parsing" /\ calls[c].key = "config"
  /\ calls'[c].pc = "done" /\ calls'[c].via = "fetched"
  /\ calls'[c].value.dur # 0

\* The step is a clearCache or a clearCacheByKey that empties a slot.
Clears ==
  /\ calls' = calls
  /\ \E key \in Keys : Populated(key) /\ ~Populated(key)'

\* C24: the TTL changes only in the step of a loadConfig that fetched a valid payload
\* carrying a TTL, and every such step sets the TTL to the one carried; no other step
\* of a load (a hit, a failure, a load of another dataset) and no clear changes it.
TTLSetOnlyByConfigFetch ==
  [][/\ (cacheDuration' # cacheDuration) => \E c \in DOMAIN calls : FetchesOverride(c)
     /\ \A c \in DOMAIN calls :
          FetchesOverride(c) => cacheDuration' = calls'[c].value.dur
     /\ \A c \in DOMAIN calls :
          (Begins(c) \/ (Ends(c) /\ ~FetchesOverride(c)))
            => cacheDuration' = cacheDuration
     /\ Clears => cacheDuration' = cacheDuration]_vars

\* A loadConfig fetched a TTL after the loadConfig before it had fetched another one.
TTLSetOnlyByConfigFetchWitness ==
  \E c \in DOMAIN calls :
    /\ calls[c].pc = "done" /\ calls[c].key = "config"
    /\ calls[c].via = "fetched" /\ calls[c].after = "fetched"
    /\ calls[c].value.dur = 2 * DefaultCacheDuration
    /\ cacheDuration = 2 * DefaultCacheDuration
    /\ now = StartTime + retryDelay

\* The cache is empty after a clear and the TTL is the one a config carried.
ClearKeepsTTLWitness ==
  /\ \A key \in Keys : ~Populated(key)
  /\ lastOverride # 0 /\ cacheDuration = lastOverride
  /\ cacheDuration # DefaultCacheDuration

-----------------------------------------------------------------------------
(* Properties of concurrent loads *)

\* The step is the call of preloadAll.
PreloadBegins == preload.pc = "idle" /\ preload'.pc # "idle"

\* C7: preloadAll calls the three loads in one turn, so every load whose slot is not
\* fresh has its first request in flight before any response is handled; it resolves,
\* with the three values the loads returned, only when all three have returned, it is
\* rejected as soon as one load raises, and a rejected preloadAll carries no value.
PreloadAllOrNothing ==
  /\ [][PreloadBegins =>
          \A k \in Keys :
            ~Fresh(k) => (calls'[k].pc = "fetching" /\ calls'[k].attempts = 1)]_vars
  /\ [](preload.pc = "resolved" =>
          \A k \in Keys : calls[k].status = "returned"
                          /\ preload.values[k] = calls[k].value)
  /\ [](preload.pc = "rejected" =>
          /\ \E k \in Keys : calls[k].status = "raised"
          /\ \A k \in Keys : preload.values[k] = NULL)
  /\ [](preload.pc = "pending" =>
          /\ \A k \in Keys : calls[k].status # "raised"
          /\ \E k \in Keys : InFlight(calls[k]))

\* preloadAll was rejected although two of its loads fetched their data and returned.
PreloadAllOrNothingWitness ==
  /\ preload.pc = "rejected"
  /\ Cardinality({k \in Keys : calls[k].via = "fetched"}) = 2

\* preloadAll resolved with three fetched values.
PreloadResolvedWitness ==
  /\ preload.pc = "resolved"
  /\ \A k \in Keys : calls[k].via = "fetched" /\ preload.values[k] = cache[k].data

\* C8: a loadContent called while the content slot is not fresh and another
\* loadContent is in flight issues its own first request and leaves the other call as
\* it is; two calls in flight have each invoked the transport.
NoSingleFlight ==
  /\ [][\A c, d \in DOMAIN calls :
          (c # d /\ Begins(c) /\ calls'[c].key = "content" /\ ~Fresh("content")
             /\ InFlight(calls[d]) /\ calls[d].key = "content")
            => /\ calls'[c].pc = "fetching"
               /\ calls'[c].attempts = 1
               /\ [calls'[d] EXCEPT !.overlapped = TRUE]
                    = [calls[d] EXCEPT !.overlapped = TRUE]]_vars
  /\ [](\A c, d \in DOMAIN calls :
          (c # d /\ InFlight(calls[c]) /\ InFlight(calls[d]))
            => (calls[c].attempts >= 1 /\ calls[d].attempts >= 1))

\* Two requests for the content are in flight at once.
NoSingleFlightWitness ==
  \E c, d \in DOMAIN calls :
    /\ c # d
    /\ calls[c].pc = "fetching" /\ calls[d].pc = "fetching"
    /\ calls[c].key = "content" /\ calls[d].key = "content"

\* Calls c and d overlapped and both have ended.
BothEnded(c, d) ==
  /\ c # d
  /\ calls[c].pc = "done" /\ calls[d].pc = "done"
  /\ calls[c].overlapped /\ calls[d].overlapped

\* C9 as claimed: two overlapping loadContent calls that have both ended had the same
\* outcome, and the value they returned is what the content slot holds (nothing, if
\* both raised).
OverlapConverges ==
  \A c, d \in DOMAIN calls :
    BothEnded(c, d) =>
      /\ calls[c].status = calls[d].status
      /\ calls[c].value = calls[d].value
      /\ calls[c].value = cache["content"].data

\* C9, amended: when two overlapping loadContent calls have both returned, the content
\* slot holds the value returned by the call that ended last, and the two values are
\* the same unless that last call fetched a payload that differs from what the first
\* returned.
LastWriterConverges ==
  \A c, d \in DOMAIN calls :
    (BothEnded(c, d) /\ calls[c].status = "returned" /\ calls[d].status = "returned"
       /\ calls[c].endOrder < calls[d].endOrder)
      => /\ calls[d].value = cache["content"].data
         /\ (calls[c].value # calls[d].value => calls[d].via = "fetched")

\* Two overlapping calls returned different payloads.
LastWriterConvergesWitness ==
  \E c, d \in DOMAIN calls :
    /\ BothEnded(c, d) /\ calls[c].status = "returned" /\ calls[d].status = "returned"
    /\ calls[c].endOrder < calls[d].endOrder
    /\ calls[c].value # calls[d].value

\* Two overlapping calls returned the same value, the second by falling back.
OverlapFallbackWitness ==
  \E c, d \in DOMAIN calls :
    /\ BothEnded(c, d) /\ calls[c].endOrder < calls[d].endOrder
    /\ calls[c].via = "fetched" /\ calls[d].via = "stale"
    /\ calls[c].value = calls[d].value

\* The step rejects preloadAll.
PreloadRejects == preload.pc = "pending" /\ preload'.pc = "rejected"

\* The step ends the load k of preloadAll with the payload it fetched.
StoresFetched(k) ==
  calls[k].pc = "parsing" /\ calls'[k].pc = "done" /\ calls'[k].via = "fetched"

\* What a rejected preloadAll leaves of its loads: the step that rejects it changes
\* no load but the one that raised and no slot; the loads still in flight can take
\* their next step; and a load that fetches its payload after the rejection stores
\* it, which makes its slot fresh.
SiblingsNotCancelled ==
  /\ [][PreloadRejects =>
          /\ cache' = cache /\ cacheDuration' = cacheDuration
          /\ \A k \in Keys :
               \/ calls'[k] = calls[k]
               \/ calls[k].status # "raised" /\ calls'[k].status = "raised"]_vars
  /\ [](preload.pc = "rejected" =>
          \A k \in Keys :
            /\ calls[k].pc = "fetching" => ENABLED (FetchOk(k) \/ FetchFails(k))
            /\ calls[k].pc = "parsing" =>
                 \A body \in Bodies(k) : ENABLED BodyArrives(k, body)
            /\ (calls[k].pc = "delay" /\ now >= calls[k].wakeAt) => ENABLED TimerFires(k))
  /\ [][\A k \in Keys :
          (preload.pc = "rejected" /\ StoresFetched(k))
            => /\ cache'[k] = [data |-> calls'[k].value, timestamp |-> now]
               /\ isCacheValid(k)'
               /\ preload' = preload]_vars

\* C25 as claimed: a rejected preloadAll cancels none of its loads and rolls back none
\* of their writes, and once it is rejected the slot of every load that fetched its
\* payload is populated and fresh.
SiblingsFresh ==
  /\ SiblingsNotCancelled
  /\ [](preload.pc = "rejected" =>
          \A k \in Keys :
            calls[k].via = "fetched" => (Populated(k) /\ Fresh(k)))

\* C25, amended: a rejected preloadAll cancels none of its loads and rolls back none
\* of their writes, and once it is rejected the slot of every load that fetched its
\* payload holds that payload with the timestamp of its write: it is fresh from the
\* write until the TTL has passed.
SiblingsComplete ==
  /\ SiblingsNotCancelled
  /\ [](preload.pc = "rejected" =>
          \A k \in Keys :
            calls[k].via = "fetched"
              => /\ cache[k] = [data |-> calls[k].value, timestamp |-> setAt[k]]
                 /\ Fresh(k) <=> (now - cache[k].timestamp < cacheDuration))

\* A load stored its payload after the load that rejected preloadAll had raised.
SiblingsCompleteWitness ==
  /\ preload.pc = "rejected"
  /\ \E k \in Keys :
       /\ calls[k].via = "fetched"
       /\ calls[k].endOrder > calls[preload.failed].endOrder
       /\ cache[k] = [data |-> calls[k].value, timestamp |-> now]

\* preloadAll is rejected and a slot one of its loads wrote has expired since.
SiblingExpiredWitness ==
  /\ preload.pc = "rejected"
  /\ \E k \in Keys : calls[k].via = "fetched" /\ Populated(k) /\ ~Fresh(k)

-----------------------------------------------------------------------------
(* Termination of the loads *)

\* C30: when every request is answered, every body arrives and every timer fires, a
\* load that is suspended ends (it returns or raises), and a pending preloadAll
\* resolves or is rejected; while a request is in flight, nothing but its answer moves
\* the load: the passing of time does not end it.
LoadsTerminate ==
  /\ \A c \in Keys : InFlight(calls[c]) ~> (calls[c].pc = "done")
  /\ (preload.pc = "pending") ~> (preload.pc \in {"resolved", "rejected"})
  /\ [][\A c \in Keys :
          (calls[c].pc = "fetching" /\ calls'[c].pc # "fetching")
            => /\ now' = now
               /\ calls'[c].pc \in {"parsing", "delay", "done"}]_vars

\* preloadAll resolved after one of its loads had used all its retries.
LoadsTerminateWitness ==
  /\ preload.pc = "resolved"
  /\ \E k \in Keys : calls[k].attempts = maxRetries + 1 /\ calls[k].via = "fetched"
  /\ now >= StartTime + maxRetries * retryDelay

\* A load called on its own ended by raising, after all its retries.
LoadRaisedAtLastWitness ==
  /\ preload.pc = "idle"
  /\ \E k \in Keys :
       /\ calls[k].pc = "done" /\ calls[k].status = "raised"
       /\ calls[k].attempts = maxRetries + 1

-----------------------------------------------------------------------------
(* Properties of getRecommendedContent *)

\* The entries of recsIn whose contentId is the id of a content item.
Kept == {j \in 1..Len(recsIn) : \E i \in 1..Len(contentIn) : contentIn[i].id = recsIn[j].contentId}

\* C10: getRecommendedContent returns one item for each recommendation entry whose
\* contentId is the id of a content item and no other item, each the first content
\* item of that id annotated with the entry's reason and priority, in ascending
\* priority, entries of equal priority in the order of the recommendation list.
RecommendationJoin ==
  joinPc = "done" =>
    /\ Len(joinOut) = Cardinality(Kept)
    /\ {joinOut[i].recommendationReason : i \in 1..Len(joinOut)} = Kept
    /\ \A i \in 1..Len(joinOut) :
         LET rec == recsIn[joinOut[i].recommendationReason] IN
           /\ joinOut[i].id = rec.contentId
           /\ joinOut[i].recommendationPriority = rec.priority
           /\ \E h \in 1..Len(contentIn) :
                /\ contentIn[h].id = rec.contentId
                /\ contentIn[h].title = joinOut[i].title
                /\ \A g \in 1..(h - 1) : contentIn[g].id # rec.contentId
    /\ \A i, h \in 1..Len(joinOut) :
         i < h =>
           \/ joinOut[i].recommendationPriority < joinOut[h].recommendationPriority
           \/ /\ joinOut[i].recommendationPriority = joinOut[h].recommendationPriority
              /\ joinOut[i].recommendationReason < joinOut[h].recommendationReason

\* The example: [a:2, missing:1, b:0] over the items a, b gives [b, a].
RecommendationJoinWitness ==
  /\ joinPc = "done"
  /\ [j \in 1..Len(recsIn) |-> <<recsIn[j].contentId, recsIn[j].priority>>]
       = << <<"a", 2>>, <<"missing", 1>>, <<"b", 0>> >>
  /\ [j \in 1..Len(contentIn) |-> contentIn[j].id] = <<"a", "b">>
  /\ [j \in 1..Len(joinOut) |-> <<joinOut[j].id, joinOut[j].recommendationPriority>>]
       = << <<"b", 0>>, <<"a", 2>> >>

\* Two kept entries of equal priority behind an entry of higher priority value.
RecommendationTieWitness ==
  /\ joinPc = "done"
  /\ Len(joinOut) = 3
  /\ joinOut[1].recommendationPriority = joinOut[2].recommendationPriority
  /\ joinOut[1].recommendationReason = 2 /\ joinOut[2].recommendationReason = 3
  /\ joinOut[3].recommendationReason = 1

-----------------------------------------------------------------------------
(* Properties of the derived queries *)

\* C11: getContentById with an empty id and getContentByType with an empty type raise
\* an ArgumentFailure before any load (no request is issued, no load is started, no
\* cache slot changes); with a non-empty argument the query raises exactly when its
\* loadContent raised, and then it raises that LoadFailure, with the same cause.
DerivedQueryErrors ==
  /\ [][(query' # query /\ query'.pc = "done" /\ query'.arg = "")
          => /\ query'.status = "raised" /\ query'.error = "argument"
             /\ UNCHANGED loaderVars]_vars
  /\ [](query.error = "argument" => query.arg = "")
  /\ []((query.pc = "done" /\ query.arg # "")
          => LET f == calls[query.caller] IN
               /\ f.pc = "done"
               /\ (f.status = "raised") <=> (query.status = "raised")
               /\ f.status = "raised" =>
                    /\ query.error = "load" /\ query.cause = f.cause
                    /\ f.attempts >= 1)

\* A query with an argument raised the LoadFailure of its load, whose requests all
\* failed.
DerivedQueryErrorsWitness ==
  /\ query.pc = "done" /\ query.arg # "" /\ query.status = "raised"
  /\ query.cause = "transport" /\ calls[query.caller].attempts = maxRetries + 1

\* An empty argument is refused although the content is there to be searched.
ArgumentRefusedWitness ==
  /\ query.pc = "done" /\ query.arg = "" /\ query.op = "byType"
  /\ cache["content"].data # NULL /\ loads = 1

\* A query returns what it found in stale content.
QueryFoundWitness ==
  /\ query.pc = "done" /\ query.op = "byId" /\ Len(query.value) = 1
  /\ calls[query.caller].via = "stale"

-----------------------------------------------------------------------------
(* Properties of route dispatch *)

\* The current path.
Pathname == entries[index].pathname

\* How many separators a string has.
Slashes(str) == Cardinality({k \in 1..Len(str) : str[k] = "/"})

\* The route at position k is the pattern "/c/:t".
IsCategoryRoute(k) == routes[k].pattern = <<"/", "c", "/", ":", "t">>

\* handleRoute has just run, on the current path and with the routes as they are.
JustDispatched == dispatch' # dispatch

\* What the last dispatch did is a whole-path match, the routes being those it ran with.
WholePath ==
  /\ dispatch.path = Pathname
  /\ dispatch.invoked # <<>> =>
       LET r == routes[dispatch.invoked[1]] IN
         /\ Slashes(dispatch.path) = Slashes(r.pattern)
         /\ Len(dispatch.path) >= Len(r.regex)
         /\ \A k \in 1..Len(r.regex) :
              r.regex[k] # GROUP => \E j \in k..Len(dispatch.path) : dispatch.path[j] = r.regex[k]
  /\ (Len(routes) = 1 /\ IsCategoryRoute(1)) =>
       /\ (dispatch.path = <<"/", "c", "/", "b">>) =>
            /\ dispatch.invoked = <<1>>
            /\ dispatch.args = [n \in {<<"t">>} |-> <<"b">>]
       /\ (dispatch.path \in {<<"/", "c", "/", "b", "/">>, <<"/", "c", "/">>, <<"/", "c">>,
                              <<"/", "c", "/", "/", "b">>, <<"/", "b", "/", "c">>}) =>
            /\ dispatch.invoked = <<>> /\ dispatch.notFound = 1
       /\ dispatch.invoked # <<>> =>
            /\ Len(dispatch.path) >= 4
            /\ SubSeq(dispatch.path, 1, 3) = <<"/", "c", "/">>
            /\ \A k \in 4..Len(dispatch.path) : dispatch.path[k] # "/"

\* C12: a route is dispatched only on a whole-path match: the path has exactly the
\* separators of the pattern, so no placeholder took one, and it holds the literal
\* characters of the pattern; with "/c/:t" registered alone, the path "/c/b" invokes the
\* handler with {t: "b"}, and a path with a segment more or less invokes the not-found
\* fallback.
WholePathMatch == [][JustDispatched => WholePath']_vars

\* "/c/:t" alone dispatched "/c/b" to its handler.
WholePathMatchWitness ==
  /\ Len(routes) = 1 /\ IsCategoryRoute(1)
  /\ dispatch.path = <<"/", "c", "/", "b">> /\ dispatch.invoked = <<1>>

\* "/c/:t" alone sent a path with one segment more to the not-found fallback.
ExtraSegmentWitness ==
  /\ Len(routes) = 1 /\ IsCategoryRoute(1)
  /\ dispatch.path = <<"/", "c", "/", "b", "/">> /\ dispatch.notFound = 1

\* The first registered route among those that match the path.
Earliest(path) ==
  CHOOSE k \in Matching(routes, path) : \A m \in Matching(routes, path) : k <= m

\* The parameters the route at position k extracts from the path.
Extracted(k, path) == ParamsOf(routes[k], Match(routes[k].regex, path).caps)

\* A segment the route at position k captures from the path does not decode.
Undecodable(k, path) ==
  \E g \in 1..Len(routes[k].paramNames) :
    DecodeFails(Match(routes[k].regex, path).caps[g])

\* handleRoute runs in this step, on the path it finds current after the step, and
\* several routes / some route match that path.  (No step changes the routes and
\* runs handleRoute.)
DispatchesAmong(n) ==
  /\ JustDispatched
  /\ dispatch'.path = Pathname'
  /\ routes' = routes
  /\ Cardinality(Matching(routes, dispatch'.path)) >= n

\* The dispatch of this step invokes the handler of the first registered matching
\* route, and no other, and stores the parameters that route extracts.
ServesEarliest ==
  /\ dispatch'.invoked = <<Earliest(dispatch'.path)>>
  /\ dispatch'.notFound = 0
  /\ dispatch'.args = Extracted(Earliest(dispatch'.path), dispatch'.path)
  /\ currentParams' = Extracted(Earliest(dispatch'.path), dispatch'.path)

\* C13 as stated: when several registered patterns match the current path, handleRoute
\* invokes exactly one handler, the one of the pattern registered first, and
\* currentParams holds the parameters extracted by that pattern.
FirstRegisteredWins == [][DispatchesAmong(2) => ServesEarliest]_vars

\* C13, amended: when one or several registered patterns match the current path,
\* handleRoute invokes at most one handler and never the handler of a pattern
\* registered later than the first matching one; if the segments captured by the first
\* matching pattern decode, it invokes exactly that pattern's handler and currentParams
\* holds the parameters it extracts; if one does not decode, no handler is invoked,
\* the not-found fallback is not invoked and currentParams is unchanged.
FirstDecodableWins ==
  [][DispatchesAmong(1)
       => /\ Len(dispatch'.invoked) <= 1
          /\ \A j \in 1..Len(dispatch'.invoked) :
               dispatch'.invoked[j] = Earliest(dispatch'.path)
          /\ ~Undecodable(Earliest(dispatch'.path), dispatch'.path) => ServesEarliest
          /\ Undecodable(Earliest(dispatch'.path), dispatch'.path) =>
               /\ dispatch'.invoked = <<>> /\ dispatch'.notFound = 0
               /\ dispatch'.outcome = "raised"
               /\ currentParams' = currentParams]_vars

\* Two routes match the dispatched path, and the handler of the first one ran with the
\* parameters of its pattern, which are not those of the second.
FirstDecodableWinsWitness ==
  /\ dispatch.path = Pathname
  /\ Cardinality(Matching(routes, Pathname)) = 2
  /\ dispatch.invoked = <<1>>
  /\ currentParams = Extracted(1, Pathname)
  /\ Extracted(1, Pathname) # Extracted(2, Pathname)

\* Two routes match the dispatched path, and its segment does not decode.
UndecodableWitness ==
  /\ dispatch.path = Pathname
  /\ Cardinality(Matching(routes, Pathname)) = 2
  /\ dispatch.outcome = "raised"

\* The step is a call of getPathParams.
ReadsPathParams == got' # got /\ got'.op = "getPathParams"

\* C26: a handleRoute on a path that no registered route matches invokes the
\* not-found fallback once and no handler, and leaves currentParams as it is; a
\* handleRoute that dispatches stores the parameters it passes; so getPathParams,
\* which returns currentParams, returns after a not-found dispatch what it returned
\* before it: the parameters of the last match, or the empty mapping.
NotFoundKeepsParams ==
  /\ [][(JustDispatched /\ Matching(routes, dispatch'.path) = {})
          => /\ dispatch'.notFound = 1
             /\ dispatch'.invoked = <<>>
             /\ dispatch'.outcome = "normal"
             /\ currentParams' = currentParams]_vars
  /\ [][(JustDispatched /\ dispatch'.invoked # <<>>)
          => (dispatch'.notFound = 0 /\ currentParams' = dispatch'.args)]_vars
  /\ [][ReadsPathParams
          => (got'.value = currentParams /\ currentParams' = currentParams)]_vars
  /\ [](dispatch.notFound \in {0, 1})
  /\ [](dispatch.notFound = 1 => dispatch.invoked = <<>>)

\* The page "/b", which has no route, was dispatched after the page "/c/b", and
\* getPathParams returns the parameter of "/c/b".
NotFoundKeepsParamsWitness ==
  /\ dispatch.notFound = 1 /\ dispatch.path = <<"/", "b">>
  /\ currentParams = [n \in {<<"t">>} |-> <<"b">>]
  /\ got = [op |-> "getPathParams", alias |-> FALSE, value |-> currentParams]

\* The page "/b" was dispatched before any route matched, and getPathParams returns
\* the empty mapping.
NotFoundFirstWitness ==
  /\ dispatch.notFound = 1 /\ dispatch.path = <<"/", "b">>
  /\ currentParams = EmptyParams
  /\ got = [op |-> "getPathParams", alias |-> FALSE, value |-> EmptyParams]

\* C27: when a segment that the first matching route captures does not decode,
\* handleRoute raises: no handler is invoked (not that route's, not a later matching
\* route's), the not-found fallback is not invoked and currentParams is as before;
\* handleRoute raises in no other case: what a handler raises is caught.
DecodeFailureEscapes ==
  /\ [][(JustDispatched /\ Matching(routes, dispatch'.path) # {}
           /\ Undecodable(Earliest(dispatch'.path), dispatch'.path))
          => /\ dispatch'.outcome = "raised"
             /\ dispatch'.invoked = <<>>
             /\ dispatch'.notFound = 0
             /\ ~dispatch'.handlerRaised
             /\ currentParams' = currentParams]_vars
  /\ [][(JustDispatched /\ dispatch'.outcome = "raised")
          => /\ Matching(routes, dispatch'.path) # {}
             /\ Undecodable(Earliest(dispatch'.path), dispatch'.path)]_vars
  /\ [](dispatch.handlerRaised => (dispatch.outcome = "normal" /\ dispatch.invoked # <<>>))

\* handleRoute raised on the page "/c/%", which two routes match, and the parameter
\* stored is still the one of the page "/c/b".
DecodeFailureEscapesWitness ==
  /\ dispatch.outcome = "raised" /\ dispatch.path = <<"/", "c", "/", "%">>
  /\ Pathname = dispatch.path
  /\ Cardinality(Matching(routes, dispatch.path)) = 2
  /\ currentParams = [n \in {<<"t">>} |-> <<"b">>]

\* A handler raised, which handleRoute caught.
HandlerCaughtWitness ==
  /\ dispatch.handlerRaised /\ dispatch.outcome = "normal"
  /\ currentParams = dispatch.args /\ currentParams # EmptyParams

-----------------------------------------------------------------------------
(* Properties of navigation *)

\* The user goes back, and it is the first change of the history after a navigate of
\* the kind op.
BackAfter(op) == nav.op = op /\ nav'.op = "back" /\ nav'.at = index

\* handleRoute ran in this step on the path `path`, with the routes and the stored
\* parameters of before the step.
Redispatched(path) ==
  \E raises \in BOOLEAN :
    /\ dispatch' = [HandleRoute(currentParams, routes, path, raises).log
                      EXCEPT !.afterRaise = dispatch.handlerRaised]
    /\ currentParams' = HandleRoute(currentParams, routes, path, raises).params
    /\ dispatch'.path = path

ReplaceBackWitness ==
  /\ nav.op = "back" /\ nav.after = "replace" /\ listening
  /\ dispatch.path = Pathname
  /\ Len(entries) = 3 /\ index = 2 /\ Cardinality({entries[k] : k \in 1..3}) = 3

\* C15: when the handler of the matched route raises, handleRoute ends normally, the
\* not-found fallback is not invoked, currentParams holds the parameters of the matched
\* route, and the routes, the listener and the history are what they would be had the
\* handler returned; the dispatch that follows a raising handler serves the first
\* matching route of its path like any other.
HandlerFailureContained ==
  /\ [][(JustDispatched /\ dispatch'.handlerRaised)
          => /\ dispatch'.outcome = "normal"
             /\ dispatch'.notFound = 0
             /\ Len(dispatch'.invoked) = 1
             /\ dispatch'.invoked[1] = Earliest(dispatch'.path)
             /\ currentParams' = Extracted(dispatch'.invoked[1], dispatch'.path)
             /\ routes' = routes
             /\ listening => listening'
             /\ entries'[index'].pathname = dispatch'.path]_vars
  /\ [][(JustDispatched /\ dispatch.handlerRaised /\ routes' = routes
           /\ Matching(routes, dispatch'.path) # {}
           /\ ~Undecodable(Earliest(dispatch'.path), dispatch'.path))
          => ServesEarliest]_vars

\* The handler of "/c/:t" raised, and the parameters stored are its own, not the empty
\* mapping of before.
HandlerFailureContainedWitness ==
  /\ dispatch.handlerRaised /\ dispatch.invoked = <<2>>
  /\ currentParams = [n \in {<<"t">>} |-> <<"b">>]

\* After a handler raised, a navigation to another page ran that page's handler.
DispatchAfterRaiseWitness ==
  /\ dispatch.afterRaise /\ ~dispatch.handlerRaised /\ dispatch.invoked = <<1>>
  /\ nav.op = "push" /\ nav.from.pathname = <<"/", "c", "/", "b">>

-----------------------------------------------------------------------------
(* Properties of the getters *)

\* The parameters of the query string of the current URL.
QueryParams == parseQueryString(Href(entries[index]))

\* getAllParams returns in this step.
ReturnsAllParams == got' # got /\ got'.op = "getAllParams"

\* What getAllParams returns holds the keys of the path parameters and of the query
\* parameters, and a key of one of them only has its value there.
MergesBoth ==
  /\ DOMAIN got'.value = DOMAIN currentParams \cup DOMAIN QueryParams
  /\ \A k \in DOMAIN currentParams \ DOMAIN QueryParams : got'.value[k] = currentParams[k]
  /\ \A k \in DOMAIN QueryParams \ DOMAIN currentParams : got'.value[k] = QueryParams[k]

\* C16 as stated: getAllParams returns the merge of the query-string parameters and
\* the path parameters in which a key present in both has the path parameter's value.
PathParamsWin ==
  [][ReturnsAllParams
       => /\ MergesBoth
          /\ \A k \in DOMAIN currentParams \cap DOMAIN QueryParams :
               got'.value[k] = currentParams[k]]_vars

\* C16, amended: getAllParams returns the merge of the query-string parameters and
\* the path parameters in which a key present in both has the query-string
\* parameter's value.
QueryParamsWin ==
  [][ReturnsAllParams
       => /\ MergesBoth
          /\ \A k \in DOMAIN currentParams \cap DOMAIN QueryParams :
               got'.value[k] = QueryParams[k]]_vars

\* getAllParams returned on "/c/b?t=t" with the path parameter t = "b" stored: the key
\* t is in both, with different values.
QueryParamsWinWitness ==
  /\ got.op = "getAllParams"
  /\ currentParams = [n \in {<<"t">>} |-> <<"b">>]
  /\ <<"t">> \in DOMAIN QueryParams /\ QueryParams[<<"t">>] = <<"t">>
  /\ <<"t">> \in DOMAIN got.value

\* getAllParams returned on a URL without a query string: the URL itself is a key.
WholeUrlKeyWitness ==
  /\ got.op = "getAllParams" /\ entries[index].search = <<>>
  /\ Href(entries[index]) \in DOMAIN got.value

\* currentParams changes in this step.
ParamsChange == currentParams' # currentParams

\* The step is a run of handleRoute that matched a route: nothing else of the Router
\* changes, and the parameters stored are those passed to the handler.
InHandleRoute ==
  /\ routes' = routes /\ got' = got /\ entries' = entries /\ index' = index
  /\ dispatch'.path = Pathname
  /\ dispatch'.invoked # <<>>
  /\ currentParams' = dispatch'.args

\* The step is a call of clearRoutes: the routes and the parameters are emptied.
InClearRoutes ==
  /\ routes' = <<>> /\ currentParams' = EmptyParams
  /\ got' = got /\ dispatch' = dispatch /\ entries' = entries /\ index' = index

\* C17 as stated: currentParams changes only inside handleRoute: not in register,
\* clearRoutes, getParams, getPathParams, getAllParams or getCurrentPath, and not when
\* the object getPathParams returned is changed.
OnlyHandleRouteChangesParams == [][ParamsChange => InHandleRoute]_vars

\* C17, amended: currentParams changes only inside handleRoute, which stores the
\* parameters of the route it matched, and inside clearRoutes, which resets it to the
\* empty mapping; register, getParams, getPathParams, getAllParams and getCurrentPath
\* do not change it, nor does a change of the object getPathParams returned.
OnlyDispatchAndClearChangeParams ==
  [][ParamsChange => (InHandleRoute \/ InClearRoutes)]_vars

\* The caller changed the object getPathParams gave it, and the stored parameters are
\* still those of the route.
OnlyDispatchAndClearChangeParamsWitness ==
  /\ got.op = "getPathParams"
  /\ currentParams = [n \in {<<"t">>} |-> <<"b">>]
  /\ got.value = [n \in {<<"t">>} |-> <<"=">>]

\* clearRoutes emptied the parameters a dispatch had stored.
ClearedParamsWitness ==
  /\ routes = <<>> /\ currentParams = EmptyParams
  /\ dispatch.invoked # <<>> /\ dispatch.args # EmptyParams

-----------------------------------------------------------------------------
(* Properties of search *)

\* The terms of the last keyword.
Terms == SearchTerms(keyword)

\* The score the rule gives the item: for every term of the keyword, 2 if the
\* lower-cased title contains it and 1 if the lower-cased description does.
RuleScore(item) ==
  2 * Cardinality({k \in 1..Len(Terms) : Contains(ToLower(item.title), Terms[k])})
    + Cardinality({k \in 1..Len(Terms) : Contains(ToLower(item.description), Terms[k])})

\* The snapshot is the item of the example alone.
ExampleData ==
  searchData = <<[id |-> 1, title |-> LittlePrince, description |-> AStoryAboutAPrince]>>

\* The keyword is empty or only spaces.
Blank(kw) == \A k \in 1..Len(kw) : kw[k] = " "

\* C18: search returns exactly the items whose score is > 0, the score being the
\* rule's (a term counts at most once per field); a blank keyword returns nothing; on
\* the example "prince" scores 3, "prince story" scores 4 and "dragon" returns nothing.
SearchScoring ==
  searchPc = "done" =>
    /\ \A j \in 1..Len(searchData) :
         /\ ScoreFrom(searchData[j], Terms, 1) = RuleScore(searchData[j])
         /\ (RuleScore(searchData[j]) > 0) <=>
              (\E i \in 1..Len(results) : results[i] = searchData[j])
    /\ \A i \in 1..Len(results) : \E j \in 1..Len(searchData) : results[i] = searchData[j]
    /\ Len(results) = Cardinality({j \in 1..Len(searchData) : RuleScore(searchData[j]) > 0})
    /\ Blank(keyword) => results = <<>>
    /\ ExampleData =>
         /\ keyword = Prince =>
              ScoreFrom(searchData[1], Terms, 1) = 3 /\ results = searchData
         /\ keyword = PrinceStory =>
              ScoreFrom(searchData[1], Terms, 1) = 4 /\ results = searchData
         /\ keyword = Dragon => results = <<>>

\* "prince story" found the item of the example.
SearchScoringWitness ==
  searchPc = "done" /\ ExampleData /\ keyword = PrinceStory /\ results = searchData

\* A term that occurs twice in a description, and not in the title, found the item
\* with the score 1.
OncePerFieldWitness ==
  /\ searchPc = "done" /\ Len(Terms) = 1
  /\ \E i \in 1..Len(results) :
       /\ Occurrences(ToLower(results[i].description), Terms[1]) = 2
       /\ ScoreFrom(results[i], Terms, 1) = 1

\* C19: in a search result an item of a higher score precedes every item of a lower
\* score, the elements are items of the snapshot, each at most once, and the search
\* leaves the snapshot as it was.
SearchOrdering ==
  /\ [](searchPc = "done" =>
          /\ \A i, j \in 1..Len(results) :
               i < j => ScoreFrom(results[i], Terms, 1) >= ScoreFrom(results[j], Terms, 1)
          /\ \A i \in 1..Len(results) :
               /\ results[i].id \in 1..Len(searchData)
               /\ results[i] = searchData[results[i].id]
          /\ \A i, j \in 1..Len(results) : i # j => results[i].id # results[j].id)
  /\ [][searchPc' # searchPc => searchData' = searchData]_vars

\* The result holds two items of different scores, in the other order than the
\* snapshot.
SearchOrderingWitness ==
  /\ searchPc = "done" /\ Len(results) = 2
  /\ ScoreFrom(results[1], Terms, 1) > ScoreFrom(results[2], Terms, 1)
  /\ results[1].id > results[2].id

\* C28: in a search result two items of the same score are in the order of the
\* snapshot, so the result is the one sequence that the snapshot and the keyword fix
\* (the items of a score > 0, by falling score and then by position), and a second
\* search with the same keyword over the same snapshot returns the same sequence.
TiesInSnapshotOrder ==
  /\ [](searchPc \in {"done", "again"} =>
          /\ \A i, j \in 1..Len(results) :
               (i < j /\ ScoreFrom(results[i], Terms, 1) = ScoreFrom(results[j], Terms, 1))
                 => results[i].id < results[j].id
          /\ \A i \in 1..Len(results) : results[i] = searchData[results[i].id]
          /\ {results[i].id : i \in 1..Len(results)}
               = {j \in 1..Len(searchData) : RuleScore(searchData[j]) > 0}
          /\ \A i, j \in 1..Len(results) :
               i < j =>
                 \/ RuleScore(results[i]) > RuleScore(results[j])
                 \/ /\ RuleScore(results[i]) = RuleScore(results[j])
                    /\ results[i].id < results[j].id)
  /\ [][(searchPc = "done" /\ searchPc' = "again")
          => (results' = results /\ searchData' = searchData /\ keyword' = keyword)]_vars

\* A second search returned two items of the same score, which differ, in the order of
\* the snapshot.
TiesInSnapshotOrderWitness ==
  /\ searchPc = "again" /\ Len(results) = 2
  /\ ScoreFrom(results[1], Terms, 1) = ScoreFrom(results[2], Terms, 1)
  /\ results[1].title # results[2].title
  /\ results[1].id = 1 /\ results[2].id = 2

\* How often the term is written in the keyword.
Written(term) == Cardinality({k \in 1..Len(Terms) : Terms[k] = term})

\* What one writing of the term adds to the score of the item.
PerTerm(item, term) ==
  (IF Contains(ToLower(item.title), term) THEN 2 ELSE 0)
    + (IF Contains(ToLower(item.description), term) THEN 1 ELSE 0)

\* The sum, over the different terms of the keyword from position k on, of what the
\* term adds times how often it is written.
RECURSIVE RepeatedScore(_, _)
RepeatedScore(item, k) ==
  IF k > Len(Terms) THEN 0
  ELSE (IF \E j \in 1..(k - 1) : Terms[j] = Terms[k]
          THEN 0
          ELSE Written(Terms[k]) * PerTerm(item, Terms[k]))
         + RepeatedScore(item, k + 1)

\* The different terms of the keyword, each once, as a keyword.
RECURSIVE Deduplicated(_)
Deduplicated(k) ==
  IF k > Len(Terms) THEN <<>>
  ELSE IF \E j \in 1..(k - 1) : Terms[j] = Terms[k] THEN Deduplicated(k + 1)
  ELSE Terms[k] \o <<" ">> \o Deduplicated(k + 1)

\* C29: the terms of a keyword are not de-duplicated: a term written n times adds n
\* times what it adds for the item; on the example "prince prince" scores 6 and
\* "prince" scores 3.
RepeatedTermsCount ==
  searchPc = "done" =>
    /\ \A j \in 1..Len(searchData) :
         ScoreFrom(searchData[j], Terms, 1) = RepeatedScore(searchData[j], 1)
    /\ ExampleData =>
         /\ keyword = Prince => ScoreFrom(searchData[1], Terms, 1) = 3
         /\ keyword = PrincePrince =>
              (Terms = <<Prince, Prince>> /\ ScoreFrom(searchData[1], Terms, 1) = 6)

\* "prince prince" found the item of the example, with the score 6.
RepeatedTermsCountWitness ==
  /\ searchPc = "done" /\ ExampleData /\ keyword = PrincePrince
  /\ results = searchData /\ ScoreFrom(searchData[1], Terms, 1) = 6

\* A keyword that repeats a term found two items in the other order than the keyword
\* without the repetition finds them.
RepeatChangesOrderWitness ==
  /\ searchPc = "done" /\ Len(results) = 2
  /\ Len(Terms) > Cardinality({Terms[k] : k \in 1..Len(Terms)})
  /\ Search(searchData, Deduplicated(1)) = <<results[2], results[1]>>

-----------------------------------------------------------------------------
(* Properties of highlight *)

\* The marker `mark` stands in str at position i.
MarkAt(str, i, mark) ==
  i + Len(mark) - 1 <= Len(str) /\ SubSeq(str, i, i + Len(mark) - 1) = mark

\* The marked text from position i on, read as its characters without the markers,
\* each with the number of the marker pair it stands in (0: in none); n is the number
\* of pairs opened so far, and inside tells whether the last one is still open.
RECURSIVE Unmarked(_, _, _, _)
Unmarked(str, i, n, inside) ==
  IF i > Len(str) THEN <<>>
  ELSE IF MarkAt(str, i, OpenMark) THEN Unmarked(str, i + Len(OpenMark), n + 1, TRUE)
  ELSE IF MarkAt(str, i, CloseMark) THEN Unmarked(str, i + Len(CloseMark), n, FALSE)
  ELSE <<[ch |-> str[i], pair |-> IF inside THEN n ELSE 0]>>
         \o Unmarked(str, i + 1, n, inside)

\* The term occurs in the text at position i, whatever the case.
OccursAt(text, term, i) ==
  /\ i + Len(term) - 1 <= Len(text)
  /\ \A k \in 1..Len(term) : Lower(text[i + k - 1]) = Lower(term[k])

\* C20: for a keyword of one term, highlight wraps occurrences of the literal term,
\* whatever their case, and nothing else: without the markers the result is the text,
\* what a marker pair holds is an occurrence of the term, and every occurrence of the
\* term has a character in a marker pair; "the quick fox" with "quick" wraps "quick"
\* alone; with an empty keyword or an empty text the text is returned as it is.
HighlightOnlyMatches ==
  hlPc = "done" =>
    LET terms == HighlightTerms(hlKeyword)
        chars == Unmarked(hlOut, 1, 0, FALSE)
    IN /\ (hlKeyword = <<>> \/ hlText = <<>>) => hlOut = hlText
       /\ Len(terms) = 1 =>
            /\ [k \in 1..Len(chars) |-> chars[k].ch] = hlText
            /\ \A k \in 1..Len(chars) :
                 chars[k].pair # 0 =>
                   \E i \in 1..Len(hlText) :
                     /\ OccursAt(hlText, terms[1], i)
                     /\ k \in i..(i + Len(terms[1]) - 1)
                     /\ \A j \in i..(i + Len(terms[1]) - 1) : chars[j].pair = chars[k].pair
                     /\ \A j \in 1..Len(chars) :
                          chars[j].pair = chars[k].pair => j \in i..(i + Len(terms[1]) - 1)
            /\ \A i \in 1..Len(hlText) :
                 OccursAt(hlText, terms[1], i) =>
                   \E k \in i..(i + Len(terms[1]) - 1) : chars[k].pair # 0
       /\ (hlText = TheQuickFox /\ hlKeyword = Quick) =>
            hlOut = <<"t", "h", "e", " ">> \o OpenMark \o Quick \o CloseMark
                      \o <<" ", "f", "o", "x">>

\* "quick" was highlighted in "the quick fox".
HighlightOnlyMatchesWitness ==
  /\ hlPc = "done" /\ hlText = TheQuickFox /\ hlKeyword = Quick
  /\ Len(hlOut) = Len(hlText) + Len(OpenMark) + Len(CloseMark)

\* A dot was highlighted, in another case than the letter next to it was, and a letter
\* was left alone.
HighlightLiteralWitness ==
  /\ hlPc = "done" /\ hlText = <<"A", ".", "a">> /\ hlKeyword = <<"a", ".">>
  /\ hlOut = OpenMark \o <<"A", ".">> \o CloseMark \o <<"a">>

====
